---- MODULE Spec2Model ----
(***************************************************************************)
(* Model of astra_framework:                                               *)
(*   ParallelAgent, SequentialAgent, LoopAgent (agents/)                   *)
(*   ToolManager (core/tool.py), ReActAgent (agents/react_agent.py)        *)
(*   WorkflowManager (manager.py)                                          *)
(*   DynamicWorkflowAgent (agents/dynamic_workflow_agent.py)               *)
(*   LLMAgent (agents/llm_agent.py)                                        *)
(* over SessionState (core/state.py) and AgentResponse (core/models.py).   *)
(*                                                                         *)
(* SessionState objects live in a heap of cells indexed by reference, so   *)
(* that passing the state by reference (Sequential, Loop) and passing a    *)
(* deepcopy (Parallel) are different things.  Cell 0 is the state handed   *)
(* to the composite's execute.  Strings are sequences of tokens, so that   *)
(* str(), model_dump_json() and the f-string of the revision prompt are     *)
(* computed, not assumed.  A child is any BaseAgent: it mutates the state  *)
(* it was given through SessionState's operations and then returns an      *)
(* AgentResponse or raises.                                                *)
(***************************************************************************)
EXTENDS Integers, Sequences, FiniteSets, TLC

\* ---------------------------------------------------------------- bounds
MaxChildren == 2          \* children of a Parallel / Sequential agent
MaxLoops == 3             \* largest max_loops of a LoopAgent
MaxMutations == 1         \* state mutations the child calls of one run perform
MaxRegistrations == 2     \* calls of ToolManager.register
MaxIterations == 3        \* largest max_iterations of a ReActAgent
MaxSessions == 2          \* calls of WorkflowManager.create_session
MaxRuns == 2              \* calls of WorkflowManager.run
MaxToolCalls == 2         \* tool calls in one reply to an LLMAgent
MaxAgentHistory == 5      \* messages in the history an LLMAgent writes to
MaxPlanChildren == 2      \* children of a composite node of a workflow plan

\* ------------------------------------------------------- program values
Max(a, b) == IF a >= b THEN a ELSE b

ParentRef == 0

\* final_content values: a str, a pydantic BaseModel, or None
NoneFC == [kind |-> "none", val |-> <<>>]
StrFC(t) == [kind |-> "str", val |-> t]
ModelFC(t) == [kind |-> "model", val |-> t]

ApprovedModel == ModelFC(<<"approved=true">>)

\* BaseModel.model_dump_json(): the fields wrapped as a JSON object
model_dump_json(fc) == <<"{">> \o fc.val \o <<"}">>

\* str(x): a str is itself, None is "None", a BaseModel prints its fields
str(fc) == IF fc.kind = "none" THEN <<"None">> ELSE fc.val

ChatMessage(role, content) == [role |-> role, content |-> content]

AgentResponse(status, final_content) ==
    [status |-> status, final_content |-> final_content, isException |-> FALSE]

\* what gather(..., return_exceptions=True) puts in the slot of a child
\* that raised: the exception object, which has no final_content
ExceptionResult ==
    [status |-> "exception", final_content |-> NoneFC, isException |-> TRUE]

NoResponse ==
    [status |-> "unset", final_content |-> NoneFC, isException |-> FALSE]

\* ---------------------------------------------------------- SessionState
DataKeys == {"k1"}
Absent == <<"absent">>

EmptyData == [k \in DataKeys |-> Absent]

SessionState(history, data) == [history |-> history, data |-> data]

add_message(s, role, content) ==
    [s EXCEPT !.history = Append(@, ChatMessage(role, content))]

update_data(s, key, value) ==
    [s EXCEPT !.data = [@ EXCEPT ![key] = value]]

\* history.clear() followed by add_message, as a nested Sequential or Loop
\* child does to the state it shares with its parent
prune_and_add(s, role, content) ==
    add_message([s EXCEPT !.history = <<>>], role, content)

\* -------------------------------------------------- what children may do
ChildResponses ==
    {AgentResponse("success", StrFC(<<"5">>)),
     AgentResponse("success", ApprovedModel),
     AgentResponse("error", NoneFC)}

ChildMessages ==
    {ChatMessage("agent", <<"5">>),
     ChatMessage("user", model_dump_json(ApprovedModel))}

\* the message a pruning child leaves as the whole history
PruneMessages == {ChatMessage("agent", <<"5">>)}

ChildDataValues == {<<"v1">>}

AddOp(m) == [role |-> m.role, content |-> m.content, key |-> "k1",
             value |-> Absent, op |-> "add"]
PruneOp(m) == [role |-> m.role, content |-> m.content, key |-> "k1",
               value |-> Absent, op |-> "prune"]
DataOp(k, v) == [role |-> "agent", content |-> <<>>, key |-> k,
                 value |-> v, op |-> "data"]

ApplyOp(s, o) ==
    CASE o.op = "add" -> add_message(s, o.role, o.content)
      [] o.op = "prune" -> prune_and_add(s, o.role, o.content)
      [] o.op = "data" -> update_data(s, o.key, o.value)

RECURSIVE ApplyOps(_, _)
ApplyOps(s, ops) ==
    IF ops = <<>> THEN s
    ELSE ApplyOps(ApplyOp(s, Head(ops)), Tail(ops))

\* ------------------------------------------------------- the tool registry
\* the callables the registry is exercised with: two functions named add,
\* an async function, one that raises, one that takes a pydantic model
Callables == {"add", "add_again", "async_add", "boom", "describe"}

FuncName(func) == IF func = "add_again" THEN "add" ELSE func

ToolNames == {FuncName(func) : func \in Callables}

\* names a caller may ask for: the registered ones and one that never is
CallNames == ToolNames \cup {"missing_tool"}

\* parameters without / with a default value
Required(func) ==
    CASE func \in {"add", "add_again", "async_add"} -> {"a", "b"}
      [] func = "describe" -> {"item"}
      [] OTHER -> {}

Optional(func) == IF func = "describe" THEN {"b"} ELSE {}

\* parameters annotated with a BaseModel subclass
ModelParams(func) == IF func = "describe" THEN {"item"} ELSE {}

iscoroutinefunction(func) == func = "async_add"

\* argument values: an int, a dict that validates as the model, one that
\* does not; ItemModel is the validated model instance
IntArg == "1"
OkDict == "{ok}"
BadDict == "{bad}"
ItemModel == "Item"
NoArg == "no_arg"

ArgNames == {"a", "b", "item", "func", "args"}

ArgValues(k) == IF k = "item" THEN {IntArg, OkDict, BadDict} ELSE {IntArg}

\* a dict of arguments: argument name -> value, NoArg where there is no key
ArgDicts ==
    {d \in [ArgNames -> {IntArg, OkDict, BadDict, NoArg}] :
        \A k \in ArgNames : d[k] \in ArgValues(k) \cup {NoArg}}

Keys(d) == {k \in ArgNames : d[k] /= NoArg}

EmptyDict == [k \in ArgNames |-> NoArg]

\* what is passed as args: a mapping, or a value that is not one
Mapping(d) == [is_mapping |-> TRUE, items |-> d]
NotAMapping == [is_mapping |-> FALSE, items |-> EmptyDict]

\* a call of execute_tool: execute_tool(name, args), the way ReActAgent
\* calls, or execute_tool(name, **kwargs), the way the tests and LLMAgent do
ToolCall(form, name, args) == [args |-> args, form |-> form, name |-> name]
NoCall == ToolCall("none", "missing_tool", NotAMapping)

Calls ==
    {ToolCall("mapping", name, Mapping(d)) : name \in CallNames, d \in ArgDicts}
    \cup {ToolCall("mapping", name, NotAMapping) : name \in CallNames}
    \cup {ToolCall("keywords", name, Mapping(d)) :
              name \in CallNames, d \in ArgDicts}

\* what a call of execute_tool produced, and the callables it invoked
ToolReturned(val, invoked) ==
    [val |-> val, invoked |-> invoked, outcome |-> "returned"]
ToolRaised(e) == [val |-> <<e>>, invoked |-> {}, outcome |-> "raised"]
NoToolResult == [val |-> <<>>, invoked |-> {}, outcome |-> "none"]

\* self.tools, a dict in insertion order: a sequence of <<name, callable>>
Has(d, name) == \E p \in 1..Len(d) : d[p][1] = name
Get(d, name) == d[CHOOSE p \in 1..Len(d) : d[p][1] = name][2]
Set(d, name, func) ==
    IF Has(d, name)
    THEN [p \in 1..Len(d) |-> IF d[p][1] = name THEN <<name, func>> ELSE d[p]]
    ELSE Append(d, <<name, func>>)

\* variant: a name that is already registered keeps its callable
register_keep_first(d, func) ==
    IF Has(d, FuncName(func)) THEN d ELSE Set(d, FuncName(func), func)

\* self.tools[func.__name__] = func
register(d, func) == Set(d, FuncName(func), func)

\* the definition derived from a callable's signature
_generate_tool_definition(func) ==
    [name |-> FuncName(func),
     properties |-> Required(func) \cup Optional(func),
     required |-> Required(func)]

get_tool_definitions(d) ==
    [p \in 1..Len(d) |-> _generate_tool_definition(d[p][2])]

\* Python's binding of keyword arguments to named parameters
BindsTo(keys, required, optional) ==
    /\ required \subseteq keys
    /\ keys \subseteq required \cup optional

\* the body of a callable, called with arguments it accepts
CallableRaises(func, kw) ==
    \/ func = "boom"
    \/ func = "describe" /\ kw["item"] /= ItemModel

CallableResult(func, kw) ==
    IF func = "describe" THEN ModelFC(<<kw["item"]>>)
    ELSE StrFC(<<func, "(", kw["a"], ",", kw["b"], ")">>)

ErrorExecuting(e) == <<"Error executing tool: ", e>>

\* _execute_function(func, **kwargs): everything inside its try
_execute_function(func, kwargs) ==
    LET hydrated == [k \in ArgNames |->
                        IF k \in ModelParams(func) /\ kwargs[k] = OkDict
                        THEN ItemModel ELSE kwargs[k]]
    IN  IF \E k \in Keys(kwargs) : k \in ModelParams(func) /\ kwargs[k] = BadDict
        THEN ToolReturned(ErrorExecuting("ValidationError"), {})
        ELSE IF ~BindsTo(Keys(hydrated), Required(func), Optional(func))
        THEN ToolReturned(ErrorExecuting("TypeError"), {})
        ELSE IF CallableRaises(func, hydrated)
        THEN ToolReturned(ErrorExecuting("Exception"), {func})
        ELSE LET r == CallableResult(func, hydrated)
             IN  ToolReturned(IF r.kind = "model" THEN model_dump_json(r)
                              ELSE r.val, {func})

\* the binding of a call to execute_tool(self, name, args)
BindExecuteTool(c) ==
    IF c.form = "mapping" THEN [ok |-> TRUE, args |-> c.args]
    ELSE [ok |-> BindsTo(Keys(c.args.items), {"args"}, {}),
          args |-> NotAMapping]

\* ToolManager.execute_tool
execute_tool(d, c) ==
    LET b == BindExecuteTool(c)
    IN  IF ~b.ok THEN ToolRaised("TypeError")
        ELSE IF ~Has(d, c.name)
        THEN ToolReturned(<<"Error: Tool '", c.name, "' not found.">>, {})
        ELSE IF ~b.args.is_mapping THEN ToolRaised("TypeError")
        ELSE IF Keys(b.args.items) \cap {"self", "func"} /= {}
        THEN ToolRaised("TypeError")
        ELSE _execute_function(Get(d, c.name), b.args.items)

\* ------------------------------------------------------ the ReAct agent
\* ChatMessage is a dataclass with these fields and no defaults: its
\* constructor takes exactly these keywords, its objects have exactly these
\* attributes
ChatMessageFields == {"role", "content"}

ChatMessageAccepts(keywords) == keywords = ChatMessageFields

\* the parameters of SessionState.add_message
AddMessageParams == {"role", "content"}

\* the attributes _sync_history_to_state reads from a message and the
\* keywords it passes to add_message
SyncKeywords == {"role", "content", "tool_calls", "tool_call_id", "name"}

\* for msg in execution_history[initial_history_len:]: the first message
\* raises AttributeError when an attribute is missing, else TypeError when
\* add_message does not take the keywords
SyncError(slice) ==
    IF slice = <<>> THEN "no error"
    ELSE IF ~(SyncKeywords \subseteq ChatMessageFields) THEN "AttributeError"
    ELSE IF ~(SyncKeywords \subseteq AddMessageParams) THEN "TypeError"
    ELSE "no error"

VARIABLES
    output_structure,   \* ReActAgent.output_structure is set
    strip_thinking      \* ReActAgent.strip_thinking

\* a text that validates against the output structure
JsonText == "{ \"approved\": true, \"note\": \"here is the verdict\" }"

\* texts the model may answer with, and what _is_final_answer looks at
Texts ==
    {"", "42", "The result is 42.", "Final answer: 42",
     "I need to call the calculator before I can give the final answer.",
     "The sum of the two numbers you asked about is forty-two.",
     JsonText}

\* self.thinking_tags, in the order they are tried
ThinkingTags == <<"think", "thinking", "reasoning", "internal">>

\* what the model wrote inside a span of a tag
ThinkBody(tag) == IF tag = "think" THEN "plan A" ELSE "plan B"

\* len("<tag>plan X</tag>")
SpanLen(tag) == IF tag = "think" THEN 21 ELSE 29

\* a reply is a sequence of tagged spans followed by a text
RECURSIVE Render(_)
Render(spans) ==
    IF spans = <<>> THEN <<>>
    ELSE <<"<", Head(spans), ">", ThinkBody(Head(spans)), "</", Head(spans), ">">>
         \o Render(Tail(spans))

\* the first configured tag that has a span in the reply, 0 if none has
MatchedTag(spans) ==
    LET hits == {p \in 1..Len(ThinkingTags) :
                    \E q \in 1..Len(spans) : spans[q] = ThinkingTags[p]}
    IN  IF hits = {} THEN 0 ELSE CHOOSE p \in hits : \A q \in hits : p <= q

RECURSIVE Without(_, _)
Without(spans, tag) ==
    IF spans = <<>> THEN <<>>
    ELSE (IF Head(spans) = tag THEN <<>> ELSE <<Head(spans)>>)
         \o Without(Tail(spans), tag)

\* _extract_thinking: the spans left in cleaned_content. re.sub removes the
\* spans of the first pair that matches, then the loop breaks
_extract_thinking(spans) ==
    IF ~strip_thinking \/ MatchedTag(spans) = 0 THEN spans
    ELSE Without(spans, ThinkingTags[MatchedTag(spans)])

StripLen(t) ==
    CASE t = "" -> 0
      [] t = "42" -> 2
      [] t = "The result is 42." -> 17
      [] t = "Final answer: 42" -> 16
      [] t = "I need to call the calculator before I can give the final answer."
           -> 65
      [] t = JsonText -> 51
      [] OTHER -> 56

RECURSIVE SpansLen(_)
SpansLen(spans) ==
    IF spans = <<>> THEN 0 ELSE SpanLen(Head(spans)) + SpansLen(Tail(spans))

HasNeedsToolIndicator(t) ==
    t = "I need to call the calculator before I can give the final answer."

HasFinalIndicator(t) ==
    t \in {"Final answer: 42", JsonText,
           "I need to call the calculator before I can give the final answer."}

MinFinalLen == 10
SubstantialLen == 50

\* content is the spans left in it followed by the text t
_is_final_answer(spans, t) ==
    IF SpansLen(spans) + StripLen(t) < MinFinalLen THEN FALSE
    ELSE IF HasNeedsToolIndicator(t) THEN FALSE
    ELSE IF HasFinalIndicator(t) THEN TRUE
    ELSE SpansLen(spans) + StripLen(t) > SubstantialLen

\* the tool calls the model may ask for: a tool that works, one that is not
\* registered, one that raises, one given arguments it does not accept
ToolRequest(name, d) == ToolCall("mapping", name, Mapping(d))

ToolRequests ==
    {ToolRequest("add", [EmptyDict EXCEPT !["a"] = IntArg, !["b"] = IntArg]),
     ToolRequest("missing_tool", EmptyDict),
     ToolRequest("boom", EmptyDict),
     ToolRequest("add", [EmptyDict EXCEPT !["a"] = IntArg])}

\* what llm.generate returns: a str, a dict with content and tool_calls, or
\* something that is neither (content is a Text, or "None")
Answer(kind, spans, t, calls) ==
    [kind |-> kind, content |-> t, tool_calls |-> calls, spans |-> spans]
StrAnswer(t) == Answer("str", <<>>, t, <<>>)
DictAnswer(t, calls) == Answer("dict", <<>>, t, calls)
OtherAnswer == Answer("other", <<>>, "None", <<>>)
NoAnswer == Answer("none", <<>>, "None", <<>>)

\* replies with thinking spans of one pair and of two pairs
SpanLists == {<<"think">>, <<"think", "reasoning">>, <<"reasoning", "think">>}

Answers ==
    {StrAnswer(t) : t \in Texts}
    \cup {Answer("str", spans, t, <<>>) :
              spans \in SpanLists, t \in {"42", "Final answer: 42"}}
    \cup {DictAnswer(t, <<>>) : t \in Texts \cup {"None"}}
    \cup {DictAnswer("", <<r>>) : r \in ToolRequests}
    \cup {DictAnswer("The result is 42.", <<r, r>>) : r \in ToolRequests}
    \cup {OtherAnswer}

\* lines 96-118: final_content is user_content for a str and for a dict
\* without tool calls, None otherwise and when the content is None
HasFinalContent(ans) ==
    /\ ans.kind \in {"str", "dict"}
    /\ ans.tool_calls = <<>>
    /\ ans.content /= "None"

\* user_content: the cleaned content, what execute takes for the answer
UserContent(ans) == Render(_extract_thinking(ans.spans)) \o <<ans.content>>

IsFinal(ans) ==
    /\ HasFinalContent(ans)
    /\ _is_final_answer(_extract_thinking(ans.spans), ans.content)
IsAmbiguous(ans) == HasFinalContent(ans) /\ ~IsFinal(ans)

\* output_structure.model_validate_json(content): the content is JSON of
\* the structure, and the model it parses to
Conforms(ans) == _extract_thinking(ans.spans) = <<>> /\ ans.content = JsonText
model_validate_json(t) == ApprovedModel
AsksForTools(ans) == ans.kind = "dict" /\ ans.tool_calls /= <<>>
IsIgnored(ans) == ~HasFinalContent(ans) /\ ~AsksForTools(ans)

\* variant: the clarification request is written as the assistant
ClarificationAsAssistant ==
    ChatMessage("assistant",
                <<"Please either use a tool or provide your final answer.">>)

Clarification ==
    ChatMessage("user",
                <<"Please either use a tool or provide your final answer.">>)

\* _execute_single_tool: the observation for one tool call
Observation(d, request) ==
    LET r == execute_tool(d, request)
    IN  ChatMessage("tool", IF r.outcome = "raised"
                            THEN <<"Error: ">> \o r.val ELSE r.val)

RECURSIVE Observations(_, _)
Observations(d, requests) ==
    IF requests = <<>> THEN <<>>
    ELSE <<Observation(d, Head(requests))>> \o Observations(d, Tail(requests))

\* _get_summary: the last five messages, role in upper case
upper(role) ==
    CASE role = "system" -> "SYSTEM"
      [] role = "user" -> "USER"
      [] role = "agent" -> "AGENT"
      [] role = "assistant" -> "ASSISTANT"
      [] OTHER -> "TOOL"

SummaryWindow == 5

RECURSIVE SummaryLines(_)
SummaryLines(h) ==
    IF h = <<>> THEN <<>>
    ELSE <<"\n", upper(Head(h).role), ": ">> \o Head(h).content
         \o SummaryLines(Tail(h))

_get_summary(h) ==
    IF h = <<>> THEN <<"No history available.">>
    ELSE <<"Summary of last 5 messages:">>
         \o SummaryLines(SubSeq(h, Max(1, Len(h) - SummaryWindow + 1), Len(h)))

\* the range of the for loop, iteration counted from 0
ReactRangeOneMore(iteration, max_iterations) == iteration <= max_iterations

ReactRange(iteration, max_iterations) == iteration < max_iterations

\* ------------------------------------------------------ WorkflowManager
WorkflowNames == {"test_workflow"}

\* names a caller may run: the registered ones and one that never is
RunNames == WorkflowNames \cup {"unknown_workflow"}

\* the root agents registered as workflows; None is what dict.get returns
\* for a name that is not a key
Agents == {"dummy", "writer"}
NoAgent == "None"

NoWorkflows == [w \in WorkflowNames |-> NoAgent]

get(ws, workflow_name) ==
    IF workflow_name \in DOMAIN ws THEN ws[workflow_name] ELSE NoAgent

\* session ids are uuid4 strings: the k-th session created has id k, and 0
\* is an id create_session never returned
UnknownSessionId == 0

Prompts == {<<"test prompt">>}

RunCall(workflow_name, session_id, prompt) ==
    [workflow_name |-> workflow_name, prompt |-> prompt,
     session_id |-> session_id]

NoRun == RunCall("no run", UnknownSessionId, <<>>)

WorkflowNotFound(workflow_name) ==
    AgentResponse("error",
                  StrFC(<<"Workflow '", workflow_name, "' not found.">>))

\* what the root agent's execute does to the state it is given
AgentOps ==
    {<<>>}
    \cup {<<AddOp(m)>> : m \in ChildMessages}
    \cup {<<DataOp(k, v)>> : k \in DataKeys, v \in ChildDataValues}

\* variant: the prompt is appended to every session
PromptedEverySession(ss, agent, session_id, prompt) ==
    IF agent = NoAgent \/ session_id \notin 1..Len(ss) THEN ss
    ELSE [k \in 1..Len(ss) |-> add_message(ss[k], "user", prompt)]

\* variant: the prompt is appended before the workflow is looked up
PromptedBeforeLookup(ss, agent, session_id, prompt) ==
    IF session_id \notin 1..Len(ss) THEN ss
    ELSE [ss EXCEPT ![session_id] = add_message(@, "user", prompt)]

\* the sessions as run leaves them when it calls the agent: nothing is
\* appended when the workflow or the session is unknown
Prompted(ss, agent, session_id, prompt) ==
    IF agent = NoAgent \/ session_id \notin 1..Len(ss) THEN ss
    ELSE [ss EXCEPT ![session_id] = add_message(@, "user", prompt)]

VARIABLES
    workflows,          \* WorkflowManager.workflows
    sessions,           \* WorkflowManager.sessions, by session id
    run_call,           \* the arguments of the latest run
    run_count,          \* calls of run made so far
    executions,         \* the calls of agent.execute run made, in order
    run_result          \* what the latest run produced

managerVars ==
    <<workflows, sessions, run_call, run_count, executions, run_result>>

\* ------------------------------------------------- DynamicWorkflowAgent
\* the Literal of AgentConfig.agent_type, and the keys of available_agents
AgentTypes == {"LLMAgent", "SequentialAgent", "ParallelAgent", "LoopAgent"}

\* an AgentConfig as the model wrote it: instruction and output_structure
\* are a str or "None"; tools and children are lists, and child is a list
\* of at most one config, the empty list standing for None (the builder
\* tests all three for truth only)
AgentConfig(agent_type, instruction, structure, tool_names, children, child) ==
    [output_structure |-> structure, agent_type |-> agent_type,
     instruction |-> instruction, children |-> children, child |-> child,
     tools |-> tool_names]

LLMConfig(agent_type, instruction, output_structure_name, tool_names) ==
    AgentConfig(agent_type, instruction, output_structure_name, tool_names,
                <<>>, <<>>)

ValidLeaf == LLMConfig("LLMAgent", "Should work", "None", <<>>)

UnknownLeaf == LLMConfig("UnknownAgent", "Should fail", "None", <<>>)

\* reasoning nodes that differ from a valid one in one respect
Leaves ==
    {ValidLeaf,
     UnknownLeaf,
     LLMConfig("LLMAgent", "None", "None", <<>>),
     LLMConfig("LLMAgent", "Should work", "None", <<"add">>),
     LLMConfig("LLMAgent", "Should work", "None", <<"missing_tool">>),
     LLMConfig("LLMAgent", "Should work", "MockOutputStructure", <<>>),
     LLMConfig("LLMAgent", "Should work", "NoSuchStructure", <<>>)}

LoopConfig(child) ==
    AgentConfig("LoopAgent", "None", "None", <<>>, <<>>, child)

\* what a Sequential or Parallel node of a plan may hold
Members ==
    {leaf \in Leaves : leaf.tools /= <<"add">>
                       /\ leaf.output_structure /= "MockOutputStructure"}
    \cup {LoopConfig(<<>>), LoopConfig(<<ValidLeaf>>),
          LoopConfig(<<UnknownLeaf>>)}

ChildLists ==
    UNION {[1..k -> Members] : k \in 0..MaxPlanChildren}

\* the root_agent of the plans the model may answer with
Plans ==
    Leaves
    \cup {LoopConfig(<<>>)}
    \cup {LoopConfig(<<leaf>>) : leaf \in Leaves}
    \cup {AgentConfig(t, "None", "None", <<>>, cs, <<>>) :
            t \in {"SequentialAgent", "ParallelAgent"}, cs \in ChildLists}

\* the configs below a config: its children, or its one child
Below(c) == IF c.child /= <<>> THEN c.child ELSE c.children

\* nodes are named by their path from the root
RECURSIVE NodeAt(_, _)
NodeAt(c, path) ==
    IF path = <<>> THEN c ELSE NodeAt(Below(c)[Head(path)], Tail(path))

RECURSIVE Paths(_, _)
Paths(c, path) ==
    {path} \cup UNION {Paths(Below(c)[k], Append(path, k)) :
                         k \in 1..Len(Below(c))}

\* what llm.generate answers: text, the client's {"tool_calls": [...]}, or
\* a mapping with the calls under "message"
PlanReply(form, name, root_agent) ==
    [form |-> form, name |-> name, root_agent |-> root_agent]

NoReply == PlanReply("none", "None", ValidLeaf)

Replies ==
    {PlanReply("str", "None", ValidLeaf),
     PlanReply("tool_calls", "create_workflow_plan", ValidLeaf),
     PlanReply("message.no_calls", "None", ValidLeaf),
     PlanReply("message.tool_calls", "add", ValidLeaf)}
    \cup {PlanReply("message.tool_calls", "create_workflow_plan", c) :
            c \in Plans}

\* list indices as pydantic prints them in an error location
IndexText(k) == <<"0", "1", "2", "3">>[k]

\* the outcome of a validation or of a build: the nodes instantiated so
\* far in order, and the message of the exception if one was raised
BuildOk(made) == [error |-> <<>>, ok |-> TRUE, made |-> made]
BuildFailed(made, error) == [error |-> error, ok |-> FALSE, made |-> made]

\* pydantic's literal_error entries of a config, in field order
RECURSIVE LiteralErrors(_, _)
RECURSIVE LiteralErrorsBelow(_, _, _)
LiteralErrors(c, loc) ==
    (IF c.agent_type \in AgentTypes THEN <<>>
     ELSE loc \o <<".agent_type: Input should be 'LLMAgent', 'SequentialAgent', 'ParallelAgent' or 'LoopAgent' [type=literal_error, input_value='",
                  c.agent_type, "']">>)
    \o LiteralErrorsBelow(c, loc, 1)

LiteralErrorsBelow(c, loc, k) ==
    IF k > Len(Below(c)) THEN <<>>
    ELSE LiteralErrors(Below(c)[k],
                       loc \o (IF c.child /= <<>> THEN <<".child">>
                               ELSE <<".children.", IndexText(k)>>))
         \o LiteralErrorsBelow(c, loc, k + 1)

\* WorkflowPlan.model_validate and the except clause that re-raises
model_validate(root_agent) ==
    IF LiteralErrors(root_agent, <<"root_agent">>) = <<>> THEN BuildOk(<<>>)
    ELSE IF root_agent.agent_type \notin AgentTypes
    THEN BuildFailed(<<>>, <<"Unknown agent type: ", root_agent.agent_type>>)
    ELSE BuildFailed(<<>>, <<"Invalid workflow plan: ">>
                           \o LiteralErrors(root_agent, <<"root_agent">>))

\* the first tool name of a config that is not a key of available_tools
MissingTool(tool_names, registry) ==
    LET k == CHOOSE k \in 1..Len(tool_names) :
               /\ tool_names[k] \notin registry
               /\ \A j \in 1..(k - 1) : tool_names[j] \in registry
    IN  tool_names[k]

RECURSIVE _build_agent_from_config(_, _, _, _)
RECURSIVE BuildChildren(_, _, _, _, _, _)
_build_agent_from_config(c, path, tool_registry, structures) ==
    IF c.agent_type \notin AgentTypes
    THEN BuildFailed(<<>>, <<"Unknown agent type: ", c.agent_type>>)
    ELSE IF c.agent_type = "LLMAgent"
    THEN IF \E k \in 1..Len(c.tools) : c.tools[k] \notin tool_registry
         THEN BuildFailed(<<>>, <<"'", MissingTool(c.tools, tool_registry),
                                  "'">>)
         ELSE IF c.output_structure /= "None"
                 /\ c.output_structure \notin structures
         THEN BuildFailed(<<>>, <<"Unknown output structure: ",
                                  c.output_structure>>)
         ELSE BuildOk(<<path>>)
    ELSE IF c.agent_type \in {"SequentialAgent", "ParallelAgent"}
    THEN IF c.children = <<>>
         THEN BuildFailed(<<>>, <<c.agent_type, " requires children.">>)
         ELSE LET r == BuildChildren(c.children, path, 1, tool_registry,
                                     structures, <<>>)
              IN  IF r.ok THEN BuildOk(Append(r.made, path)) ELSE r
    ELSE IF c.child = <<>>
         THEN BuildFailed(<<>>, <<"LoopAgent requires a child.">>)
         ELSE LET r == _build_agent_from_config(c.child[1], Append(path, 1),
                                                tool_registry, structures)
              IN  IF r.ok THEN BuildOk(Append(r.made, path)) ELSE r

\* the list comprehension over agent_config.children: the first child that
\* fails ends it, the children built before it stay built
BuildChildren(configs, path, k, tool_registry, structures, made) ==
    IF k > Len(configs) THEN BuildOk(made)
    ELSE LET r == _build_agent_from_config(configs[k], Append(path, k),
                                           tool_registry, structures)
         IN  IF r.ok
             THEN BuildChildren(configs, path, k + 1, tool_registry,
                                structures, made \o r.made)
             ELSE BuildFailed(made \o r.made, r.error)

FailedToBuild(error) ==
    AgentResponse("error",
                  StrFC(<<"Failed to build or execute dynamic workflow: ">>
                        \o error))

NoToolCall ==
    AgentResponse("error",
                  StrFC(<<"LLM did not return a tool call for workflow planning.">>))

UnexpectedTool(name) ==
    AgentResponse("error", StrFC(<<"LLM called unexpected tool: ", name>>))

\* lines 78 to 98 of execute: validate the plan, then build the tree
PlanAndBuild(root_agent, tool_registry, structures) ==
    IF model_validate(root_agent).ok
    THEN _build_agent_from_config(root_agent, <<>>, tool_registry, structures)
    ELSE model_validate(root_agent)

\* variant: the tree is executed however the build ended
MayExecuteAnyway(build) == TRUE

\* root_agent_instance.execute is reached only when nothing was raised
MayExecute(build) == build.ok

VARIABLES
    available_tools,              \* DynamicWorkflowAgent.available_tools
    available_output_structures,  \* its available_output_structures
    dyn_state,          \* the SessionState passed to its execute
    dyn_entry,          \* that state as it was when execute was entered
    dyn_pc,             \* position of DynamicWorkflowAgent.execute
    llm_response,       \* what llm.generate answered
    instantiated,       \* the nodes of the plan instantiated, in order
    started,            \* the nodes whose execute was entered
    dyn_result          \* what DynamicWorkflowAgent.execute produced

registries == <<available_tools, available_output_structures>>

dynamicVars ==
    <<registries, dyn_state, dyn_entry, dyn_pc, llm_response, instantiated,
      started, dyn_result>>

\* ------------------------------------------------------------- LLMAgent
\* the keys LLMAgent.execute writes in state.data
AgentDataKeys == {"last_agent_response", "last_tool_result"}

\* SessionState(): data = {}
NoAgentData == [k \in AgentDataKeys |-> NoneFC]

\* the states an LLMAgent is executed on
AgentEntryStates ==
    {SessionState(<<>>, NoAgentData),
     SessionState(<<ChatMessage("user", <<"prompt">>)>>, NoAgentData)}

\* the fields of the agent's output structure, both required ints
StructureFields == {"a", "b"}

\* self.output_structure(**func_args): pydantic wants every field and
\* ignores other keys
ValidatesAs(arguments) == StructureFields \subseteq Keys(arguments)

StructuredData(arguments) ==
    ModelFC(<<"a=", arguments["a"], " b=", arguments["b"]>>)

\* one entry of llm_response["tool_calls"]: function.name ("" when missing
\* or empty) and function.arguments
Request(name, arguments) == [name |-> name, arguments |-> arguments]

SumArgs == [EmptyDict EXCEPT !["a"] = IntArg, !["b"] = IntArg]
WrappedArgs == [EmptyDict EXCEPT !["args"] = IntArg]

Requests ==
    {Request("", EmptyDict)}
    \cup {Request(name, arguments) :
            name \in {"structured_output", "add", "missing_tool"},
            arguments \in {SumArgs, WrappedArgs}}

RequestLists ==
    UNION {[1..k -> Requests] : k \in 0..MaxToolCalls}

\* what llm.generate answers an LLMAgent: a str, a dict with the key
\* "tool_calls", or anything else
AgentReply(form, text, tool_calls) ==
    [form |-> form, tool_calls |-> tool_calls, text |-> text]

NoAgentReply == AgentReply("none", <<>>, <<>>)

AgentReplies ==
    {AgentReply("str", <<"final text response">>, <<>>),
     AgentReply("other", <<>>, <<>>)}
    \cup {AgentReply("tool_calls", <<>>, calls) : calls \in RequestLists}

\* json.dumps(func_args)
ArgOrder == <<"a", "b", "item", "func", "args">>

RECURSIVE DumpItems(_, _, _)
DumpItems(d, p, first) ==
    IF p > Len(ArgOrder) THEN <<>>
    ELSE IF d[ArgOrder[p]] = NoArg THEN DumpItems(d, p + 1, first)
    ELSE (IF first THEN <<>> ELSE <<", ">>)
         \o <<"\"", ArgOrder[p], "\": ", d[ArgOrder[p]]>>
         \o DumpItems(d, p + 1, FALSE)

json_dumps(d) == <<"{">> \o DumpItems(d, 1, TRUE) \o <<"}">>

\* f"Calling tool: {func_name}({json.dumps(func_args)})"
CallingTool(c) ==
    <<"Calling tool: ", c.name, "(">> \o json_dumps(c.arguments) \o <<")">>

\* where the for loop over the tool calls leaves execute: at the recursive
\* call, at a return, or at an exception
Recurses(s, log) ==
    [error |-> "no error", response |-> NoResponse, state |-> s, executed |-> log,
     next |-> "recurse"]

Returns(s, log, r) ==
    [error |-> "no error", response |-> r, state |-> s, executed |-> log,
     next |-> "returned"]

Raises(s, log, e) ==
    [error |-> e, response |-> NoResponse, state |-> s, executed |-> log,
     next |-> "raised"]

\* lines 126-131: the structured_output call
StructuredOutput(s, log, c, structure) ==
    IF ~structure THEN Raises(s, log, "TypeError")
    ELSE IF ~ValidatesAs(c.arguments) THEN Raises(s, log, "ValidationError")
    ELSE LET structured_data == StructuredData(c.arguments)
             told == add_message(s, "agent",
                                 <<"Structured output generated: ">>
                                 \o model_dump_json(structured_data))
         IN  Returns(update_data(told, "last_agent_response", structured_data),
                     log, AgentResponse("success", structured_data))

\* variant: the loop goes on after the structured_output call
RECURSIVE RunToolCallsToTheEnd(_, _, _, _, _)
RunToolCallsToTheEnd(s, log, calls, d, structure) ==
    IF calls = <<>> THEN Recurses(s, log)
    ELSE LET c == Head(calls)
             rest == Tail(calls)
         IN  IF c.name = ""
             THEN RunToolCallsToTheEnd(s, log, rest, d, structure)
             ELSE IF c.name = "structured_output"
             THEN LET o == StructuredOutput(s, log, c, structure)
                  IN  IF o.next = "raised" THEN o
                      ELSE RunToolCallsToTheEnd(o.state, log, rest, d, structure)
             ELSE LET called == add_message(s, "agent", CallingTool(c))
                      r == execute_tool(d, ToolCall("keywords", c.name,
                                                    Mapping(c.arguments)))
                  IN  IF r.outcome = "raised"
                      THEN Raises(called, Append(log, c), r.val[1])
                      ELSE RunToolCallsToTheEnd(
                               update_data(add_message(called, "tool", r.val),
                                           "last_tool_result", StrFC(r.val)),
                               Append(log, c), rest, d, structure)

\* lines 118-139: for tool_call in llm_response["tool_calls"]
RECURSIVE RunToolCalls(_, _, _, _, _)
RunToolCalls(s, log, calls, d, structure) ==
    IF calls = <<>> THEN Recurses(s, log)
    ELSE LET c == Head(calls)
             rest == Tail(calls)
         IN  IF c.name = ""
             THEN RunToolCalls(s, log, rest, d, structure)
             ELSE IF c.name = "structured_output"
             THEN StructuredOutput(s, log, c, structure)
             ELSE LET called == add_message(s, "agent", CallingTool(c))
                      r == execute_tool(d, ToolCall("keywords", c.name,
                                                    Mapping(c.arguments)))
                  IN  IF r.outcome = "raised"
                      THEN Raises(called, Append(log, c), r.val[1])
                      ELSE RunToolCalls(
                               update_data(add_message(called, "tool", r.val),
                                           "last_tool_result", StrFC(r.val)),
                               Append(log, c), rest, d, structure)

VARIABLES
    tool_manager,         \* LLMAgent.tool_manager.tools
    llm_output_structure, \* LLMAgent.output_structure is set
    llm_state,            \* the SessionState passed to LLMAgent.execute
    llm_entry,            \* that state as it was when execute was entered
    llm_pc,               \* position of LLMAgent.execute
    llm_reply,            \* the latest answer of llm.generate
    llm_executed,         \* the calls passed to execute_tool, in order
    llm_result,           \* what LLMAgent.execute produced
    llm_error             \* the exception it raised, if it raised

llmConfig == <<tool_manager, llm_output_structure>>

llmVars ==
    <<llmConfig, llm_state, llm_entry, llm_pc, llm_reply, llm_executed,
      llm_result, llm_error>>

\* ---------------------------------------------------------------- state
VARIABLES
    kind,               \* which composite is executing
    n,                  \* len(children), or max_loops for a LoopAgent
    keep_alive_state,   \* BaseAgent.keep_alive_state of the composite
    exit_condition,     \* LoopAgent.exit_condition: "none" or a predicate
    heap,               \* reference -> SessionState object
    entry,              \* cell 0 as it was when execute was entered
    pc,                 \* position of the composite's execute
    idx,                \* the loop variable i (1-based) of Sequential/Loop
    original_prompt,    \* the local original_prompt of LoopAgent.execute
    childRef,           \* call -> reference of the state it was passed
    childPc,            \* call -> "pending", "running", "returned", "raised"
    childResp,          \* call -> what the call produced
    childLog,           \* call -> the mutations the call performed
    leftBy,             \* call -> the state as the call left it
    final_response,     \* the local final_response of Sequential/Loop
    trace,              \* start / end / write events, in order
    result,             \* what the composite's execute produced
    tools,              \* ToolManager.tools
    registrations,      \* the callables registered so far, in order
    tool_call,          \* the latest call of execute_tool
    tool_result,        \* what that call produced
    max_iterations,     \* ReActAgent.max_iterations
    session,            \* the SessionState passed to ReActAgent.execute
    react_pc,           \* position of ReActAgent.execute
    iteration,          \* iterations of the for loop started so far
    initial_history_len,\* the local initial_history_len
    execution_history,  \* the local execution_history
    model_calls,        \* calls of llm.generate made so far
    last_answer,        \* the latest answer of llm.generate
    react_result,       \* what ReActAgent.execute produced
    react_error         \* the exception it raised, if it raised

compositeVars ==
    <<kind, n, keep_alive_state, exit_condition, heap, entry, pc, idx,
      original_prompt, childRef, childPc, childResp, childLog, leftBy,
      final_response, trace, result>>

toolVars == <<tools, registrations, tool_call, tool_result>>

\* the constructor arguments of the ReActAgent
reactConfig == <<max_iterations, output_structure, strip_thinking>>

reactVars ==
    <<reactConfig, session, react_pc, iteration, initial_history_len,
      execution_history, model_calls, last_answer, react_result, react_error>>

vars ==
    <<compositeVars, toolVars, reactVars, managerVars, dynamicVars, llmVars>>

\* what the steps of one component leave alone
nonComposite == <<toolVars, reactVars, managerVars, dynamicVars, llmVars>>
nonTool == <<compositeVars, reactVars, managerVars, dynamicVars, llmVars>>
nonReact == <<compositeVars, toolVars, managerVars, dynamicVars, llmVars>>
nonManager == <<compositeVars, toolVars, reactVars, dynamicVars, llmVars>>
nonDynamic == <<compositeVars, toolVars, reactVars, managerVars, llmVars>>
nonLLM == <<compositeVars, toolVars, reactVars, managerVars, dynamicVars>>

config == <<kind, n, keep_alive_state, exit_condition>>

\* identifiers of child calls: the children of a Parallel / Sequential agent
\* in list order, the successive calls of a LoopAgent's child
CallIds == 1..(Max(MaxChildren, MaxLoops) + 1)
Children == 1..n

Event(ev, i) == [ev |-> ev, i |-> i]

NoResult == [outcome |-> "none", response |-> NoResponse]
Returned(r) == [outcome |-> "returned", response |-> r]
ReturnedNone == [outcome |-> "returnedNone", response |-> NoResponse]
Raised == [outcome |-> "raised", response |-> NoResponse]

\* variant: the response returned after the loop is turned into an error
ReturnFinalAsError(fr) ==
    IF fr = NoResponse THEN ReturnedNone
    ELSE Returned(AgentResponse("error", fr.final_content))

\* variant: the response returned after the loop is marked as exhausted
ReturnFinalMarked(fr) ==
    IF fr = NoResponse THEN ReturnedNone
    ELSE Returned(AgentResponse("max_iterations_reached", fr.final_content))

\* return final_response, which is still None when no child was called
ReturnFinal(fr) == IF fr = NoResponse THEN ReturnedNone ELSE Returned(fr)

EntryStates ==
    {SessionState(<<>>, EmptyData),
     SessionState(<<ChatMessage("user", <<"prompt">>)>>, EmptyData),
     SessionState(<<ChatMessage("user", <<"prompt">>),
                    ChatMessage("agent", <<"draft">>)>>,
                  [k \in DataKeys |-> <<"v0">>])}

\* no ReActAgent is executing
ReactIdle ==
    /\ max_iterations = 0
    /\ output_structure = FALSE
    /\ strip_thinking = TRUE
    /\ session = SessionState(<<>>, EmptyData)
    /\ react_pc = "idle"
    /\ iteration = 0
    /\ initial_history_len = 0
    /\ execution_history = <<>>
    /\ model_calls = 0
    /\ last_answer = NoAnswer
    /\ react_result = NoResult
    /\ react_error = "no error"

\* ToolManager(): nothing registered, nothing called
ToolManagerInit ==
    /\ tools = <<>>
    /\ registrations = <<>>
    /\ tool_call = NoCall
    /\ tool_result = NoToolResult

\* WorkflowManager(): no workflow, no session, nothing run
ManagerInit ==
    /\ workflows = NoWorkflows
    /\ sessions = <<>>
    /\ run_call = NoRun
    /\ run_count = 0
    /\ executions = <<>>
    /\ run_result = NoResult

\* no LLMAgent is executing
LLMNotEntered ==
    /\ llm_pc = "idle"
    /\ llm_reply = NoAgentReply
    /\ llm_executed = <<>>
    /\ llm_result = NoResult
    /\ llm_error = "no error"

\* LLMAgent(name, llm, tools=[], instruction)
LLMIdle ==
    /\ tool_manager = <<>>
    /\ llm_output_structure = FALSE
    /\ llm_state = SessionState(<<>>, NoAgentData)
    /\ llm_entry = SessionState(<<>>, NoAgentData)
    /\ LLMNotEntered

\* no DynamicWorkflowAgent is executing
DynamicNotEntered ==
    /\ dyn_pc = "idle"
    /\ llm_response = NoReply
    /\ instantiated = <<>>
    /\ started = {}
    /\ dyn_result = NoResult

\* DynamicWorkflowAgent(name, llm, tools=[], instruction)
DynamicIdle ==
    /\ available_tools = {}
    /\ available_output_structures = {}
    /\ dyn_state = SessionState(<<>>, EmptyData)
    /\ dyn_entry = SessionState(<<>>, EmptyData)
    /\ DynamicNotEntered

RECURSIVE SumLen(_, _)
SumLen(f, S) ==
    IF S = {} THEN 0
    ELSE LET i == CHOOSE x \in S : TRUE
         IN  Len(f[i]) + SumLen(f, S \ {i})

TotalMutations == SumLen(childLog, CallIds)

NumCalls == Cardinality({i \in CallIds : childPc[i] /= "pending"})

Init ==
    /\ kind \in {"parallel", "sequential", "loop"}
    /\ n \in 0..(IF kind = "loop" THEN MaxLoops ELSE MaxChildren)
    /\ keep_alive_state \in (IF kind = "parallel" THEN {FALSE} ELSE BOOLEAN)
    /\ exit_condition \in
         (IF kind = "loop" THEN {"none", "critique_is_approved"} ELSE {"none"})
    /\ \E s \in EntryStates :
         /\ heap = [r \in {ParentRef} |-> s]
         /\ entry = s
    /\ pc = "idle"
    /\ idx = 0
    /\ original_prompt = <<>>
    /\ childRef = [i \in CallIds |-> ParentRef]
    /\ childPc = [i \in CallIds |-> "pending"]
    /\ childResp = [i \in CallIds |-> NoResponse]
    /\ childLog = [i \in CallIds |-> <<>>]
    /\ leftBy = [i \in CallIds |-> SessionState(<<>>, EmptyData)]
    /\ final_response = NoResponse
    /\ trace = <<>>
    /\ result = NoResult
    /\ ToolManagerInit
    /\ ReactIdle
    /\ ManagerInit
    /\ DynamicIdle
    /\ LLMIdle

\* no composite is executing
CompositeIdle ==
    /\ kind = "sequential"
    /\ n = 0
    /\ keep_alive_state = FALSE
    /\ exit_condition = "none"
    /\ heap = [r \in {ParentRef} |-> SessionState(<<>>, EmptyData)]
    /\ entry = SessionState(<<>>, EmptyData)
    /\ pc = "idle"
    /\ idx = 0
    /\ original_prompt = <<>>
    /\ childRef = [i \in CallIds |-> ParentRef]
    /\ childPc = [i \in CallIds |-> "pending"]
    /\ childResp = [i \in CallIds |-> NoResponse]
    /\ childLog = [i \in CallIds |-> <<>>]
    /\ leftBy = [i \in CallIds |-> SessionState(<<>>, EmptyData)]
    /\ final_response = NoResponse
    /\ trace = <<>>
    /\ result = NoResult

\* --------------------------------------------------------- a child's run
ChildMutates(i, o) ==
    /\ childPc[i] = "running"
    /\ TotalMutations < MaxMutations
    /\ heap' = [heap EXCEPT ![childRef[i]] = ApplyOp(@, o)]
    /\ childLog' = [childLog EXCEPT ![i] = Append(@, o)]
    /\ UNCHANGED <<nonComposite, config, entry, pc, idx, original_prompt, childRef, childPc,
                   childResp, leftBy, final_response, trace, result>>

\* state.add_message(role, content) by child call i
ChildAddMessage(i) == \E m \in ChildMessages : ChildMutates(i, AddOp(m))

\* state.update_data(key, value) by child call i
ChildUpdateData(i) ==
    \E k \in DataKeys, v \in ChildDataValues : ChildMutates(i, DataOp(k, v))

\* child call i is itself a composite that prunes the state it was given
ChildPrunes(i) == \E m \in PruneMessages : ChildMutates(i, PruneOp(m))

ChildFinishes(i, st, r) ==
    /\ childPc[i] = "running"
    /\ childPc' = [childPc EXCEPT ![i] = st]
    /\ childResp' = [childResp EXCEPT ![i] = r]
    /\ leftBy' = [leftBy EXCEPT ![i] = heap[childRef[i]]]
    /\ trace' = Append(trace, Event("end", i))
    /\ UNCHANGED <<nonComposite, config, heap, entry, pc, idx, original_prompt, childRef,
                   childLog, final_response, result>>

\* child call i returns an AgentResponse
ChildReturns(i) == \E r \in ChildResponses : ChildFinishes(i, "returned", r)

\* child call i raises an Exception
ChildRaises(i) == ChildFinishes(i, "raised", ExceptionResult)

\* --------------------------------------------------------- ParallelAgent
\* the state object child i is given: deepcopy(state) is a fresh object,
\* holding what the parent's state holds at that moment
ParallelChildRefShared(i) == ParentRef
ParallelChildRef(i) == i

\* asyncio.gather(*tasks, return_exceptions=True) completes when every
\* awaitable has completed, by returning or by raising
GatherFailFast(pcs, C) ==
    \/ \A i \in C : pcs[i] \in {"returned", "raised"}
    \/ \E i \in C : pcs[i] = "raised"
GatherDone(pcs, C) == \A i \in C : pcs[i] \in {"returned", "raised"}

\* child_responses, in the order of the awaitables passed to gather
GatherResults(pcs, resps, C) ==
    [i \in C |-> IF pcs[i] = "raised" THEN ExceptionResult ELSE resps[i]]

\* the aggregation loop: None for an exception, final_content otherwise
AggregateCompletionOrder(child_responses) ==
    LET ends == SelectSeq(trace, LAMBDA e : e.ev = "end")
    IN  [j \in 1..Len(ends) |->
            IF child_responses[ends[j].i].isException THEN NoneFC
            ELSE child_responses[ends[j].i].final_content]
AggregateDropFailed(child_responses) ==
    LET ok == SelectSeq(child_responses, LAMBDA r : ~r.isException)
    IN  [j \in 1..Len(ok) |-> ok[j].final_content]
Aggregate(child_responses) ==
    [j \in 1..Len(child_responses) |->
        IF child_responses[j].isException THEN NoneFC
        ELSE child_responses[j].final_content]

\* ParallelAgent.execute up to the await: one deepcopy per child, then gather
ParallelDispatch ==
    /\ kind = "parallel"
    /\ pc = "idle"
    /\ entry' = heap[ParentRef]
    /\ childRef' = [i \in CallIds |->
                      IF i \in Children THEN ParallelChildRef(i) ELSE ParentRef]
    /\ heap' = [r \in {ParentRef} \cup {ParallelChildRef(i) : i \in Children} |->
                   heap[ParentRef]]
    /\ childPc' = [i \in CallIds |->
                      IF i \in Children THEN "running" ELSE "pending"]
    /\ pc' = "gather"
    /\ UNCHANGED <<nonComposite, config, idx, original_prompt, childResp, childLog, leftBy,
                   final_response, trace, result>>

\* ParallelAgent.execute after the await: aggregate and return
ParallelAggregate ==
    /\ kind = "parallel"
    /\ pc = "gather"
    /\ GatherDone(childPc, Children)
    /\ result' = Returned(AgentResponse("success",
                     Aggregate(GatherResults(childPc, childResp, Children))))
    /\ pc' = "done"
    /\ UNCHANGED <<nonComposite, config, heap, entry, idx, original_prompt, childRef,
                   childPc, childResp, childLog, leftBy, final_response, trace>>

\* ------------------------------------------------------- SequentialAgent
\* final_response = response
KeepFirstResponse(old, response) == IF old = NoResponse THEN response ELSE old
UpdateFinalResponse(old, response) == response

\* SequentialAgent._handle_child_response
handle_child_response_always_prune(s, response, keep) ==
    LET structured == response.final_content.kind = "model"
        content_to_add == IF structured
                          THEN model_dump_json(response.final_content)
                          ELSE str(response.final_content)
        role_to_add == IF structured THEN "user" ELSE "agent"
    IN  prune_and_add(s, role_to_add, content_to_add)
handle_child_response_never_prune(s, response, keep) ==
    LET structured == response.final_content.kind = "model"
        content_to_add == IF structured
                          THEN model_dump_json(response.final_content)
                          ELSE str(response.final_content)
        role_to_add == IF structured THEN "user" ELSE "agent"
    IN  add_message(s, role_to_add, content_to_add)
handle_child_response(s, response, keep) ==
    LET structured == response.final_content.kind = "model"
        content_to_add == IF structured
                          THEN model_dump_json(response.final_content)
                          ELSE str(response.final_content)
        role_to_add == IF structured THEN "user" ELSE "agent"
    IN  IF ~keep
        THEN add_message([s EXCEPT !.history = <<>>], role_to_add, content_to_add)
        ELSE add_message(s, role_to_add, content_to_add)

\* the for loop awaits child i before it goes on to child i+1
SequentialMayStartEager(i) ==
    /\ pc \in {"loop", "await"}
    /\ i >= idx
    /\ childPc[i] = "pending"
SequentialMayStart(i) ==
    /\ pc = "loop"
    /\ i = idx

\* SequentialAgent.execute is entered: final_response = None
SequentialEnter ==
    /\ kind = "sequential"
    /\ pc = "idle"
    /\ entry' = heap[ParentRef]
    /\ final_response' = NoResponse
    /\ idx' = 1
    /\ pc' = "loop"
    /\ UNCHANGED <<nonComposite, config, heap, original_prompt, childRef, childPc, childResp,
                   childLog, leftBy, trace, result>>

\* response = await agent.execute(state): the call of child i
SequentialCallChild ==
    /\ kind = "sequential"
    /\ \E i \in Children :
         /\ SequentialMayStart(i)
         /\ childPc' = [childPc EXCEPT ![i] = "running"]
         /\ childRef' = [childRef EXCEPT ![i] = ParentRef]
         /\ trace' = Append(trace, Event("start", i))
    /\ pc' = "await"
    /\ UNCHANGED <<nonComposite, config, heap, entry, idx, original_prompt, childResp,
                   childLog, leftBy, final_response, result>>

\* the awaited child returned: final_response = response, then
\* _handle_child_response, then the next iteration
SequentialChildReturned ==
    /\ kind = "sequential"
    /\ pc = "await"
    /\ childPc[idx] = "returned"
    /\ final_response' = UpdateFinalResponse(final_response, childResp[idx])
    /\ heap' = [heap EXCEPT ![ParentRef] =
                   handle_child_response(@, childResp[idx], keep_alive_state)]
    /\ trace' = Append(trace, Event("write", idx))
    /\ idx' = idx + 1
    /\ pc' = "loop"
    /\ UNCHANGED <<nonComposite, config, entry, original_prompt, childRef, childPc,
                   childResp, childLog, leftBy, result>>

\* the awaited child raised: nothing catches it, execute raises
SequentialChildRaised ==
    /\ kind = "sequential"
    /\ pc = "await"
    /\ childPc[idx] = "raised"
    /\ result' = Raised
    /\ pc' = "done"
    /\ UNCHANGED <<nonComposite, config, heap, entry, idx, original_prompt, childRef,
                   childPc, childResp, childLog, leftBy, final_response, trace>>

\* the for loop is over: return final_response
SequentialReturn ==
    /\ kind = "sequential"
    /\ pc = "loop"
    /\ idx > n
    /\ result' = ReturnFinal(final_response)
    /\ pc' = "done"
    /\ UNCHANGED <<nonComposite, config, heap, entry, idx, original_prompt, childRef,
                   childPc, childResp, childLog, leftBy, final_response, trace>>

\* ------------------------------------------------------------- LoopAgent
\* critique_is_approved(state): the last message is a user message whose
\* content parses as a critique with approved = true
critique_is_approved(s) ==
    LET last_message == s.history[Len(s.history)]
    IN  /\ last_message.role = "user"
        /\ Len(last_message.content) = 3
        /\ last_message.content[1] = "{"
        /\ last_message.content[2] = "approved=true"
        /\ last_message.content[3] = "}"

\* state.history[-1] of an empty history raises IndexError
ExitConditionRaises(cond, s) == cond /= "none" /\ s.history = <<>>

\* self.exit_condition and self.exit_condition(loop_state)
ExitNever(cond, s) == FALSE
ExitConditionMet(cond, s) ==
    /\ cond /= "none"
    /\ s.history /= <<>>
    /\ critique_is_approved(s)

\* for i in range(self.max_loops), i being 0-based there and 1-based here
LoopRangeOneLess(i, max_loops) == i <= max_loops - 1
LoopRange(i, max_loops) == i <= max_loops

\* the revision prompt that seeds the next iteration
\* variant: the original request is read again from the history
RevisionPromptFromHistory(original, last_agent_output) ==
    LET feedback == IF last_agent_output.kind = "model"
                    THEN model_dump_json(last_agent_output)
                    ELSE str(last_agent_output)
        first == IF heap[ParentRef].history = <<>> THEN original
                 ELSE heap[ParentRef].history[1].content
    IN  <<"Original request: ">> \o first
        \o <<"\n\nPlease revise your work based on the following feedback: ">>
        \o feedback

RevisionPrompt(original, last_agent_output) ==
    LET feedback == IF last_agent_output.kind = "model"
                    THEN model_dump_json(last_agent_output)
                    ELSE str(last_agent_output)
    IN  <<"Original request: ">> \o original
        \o <<"\n\nPlease revise your work based on the following feedback: ">>
        \o feedback

\* variant: the feedback branch is taken after the last iteration too
PrepareNextLoopAlways(s, i, max_loops, original, response, keep) ==
    IF ~keep
    THEN add_message([s EXCEPT !.history = <<>>], "user",
                     RevisionPrompt(original, response.final_content))
    ELSE add_message(s, "user",
                     RevisionPrompt(original, response.final_content))

\* the feedback branch: if i < self.max_loops - 1
PrepareNextLoop(s, i, max_loops, original, response, keep) ==
    IF i < max_loops
    THEN IF ~keep
         THEN add_message([s EXCEPT !.history = <<>>], "user",
                          RevisionPrompt(original, response.final_content))
         ELSE add_message(s, "user",
                          RevisionPrompt(original, response.final_content))
    ELSE s

\* the loop awaits call i of the child before it goes on to call i+1
LoopMayStart(i) ==
    /\ pc = "loop"
    /\ i = idx

\* LoopAgent.execute is entered with an empty history: error response
LoopEnterEmpty ==
    /\ kind = "loop"
    /\ pc = "idle"
    /\ heap[ParentRef].history = <<>>
    /\ entry' = heap[ParentRef]
    /\ result' = Returned(AgentResponse("error",
                     StrFC(<<"LoopAgent requires an initial prompt.">>)))
    /\ pc' = "done"
    /\ UNCHANGED <<nonComposite, config, heap, idx, original_prompt, childRef, childPc,
                   childResp, childLog, leftBy, final_response, trace>>

\* LoopAgent.execute is entered: original_prompt = state.history[0].content
LoopEnter ==
    /\ kind = "loop"
    /\ pc = "idle"
    /\ heap[ParentRef].history /= <<>>
    /\ entry' = heap[ParentRef]
    /\ original_prompt' = heap[ParentRef].history[1].content
    /\ final_response' = NoResponse
    /\ idx' = 1
    /\ pc' = "loop"
    /\ UNCHANGED <<nonComposite, config, heap, childRef, childPc, childResp, childLog,
                   leftBy, trace, result>>

\* response = await self.child.execute(loop_state): call i of the child
LoopCallChild ==
    /\ kind = "loop"
    /\ \E i \in CallIds :
         /\ LoopMayStart(i)
         /\ LoopRange(i, n)
         /\ childPc' = [childPc EXCEPT ![i] = "running"]
         /\ childRef' = [childRef EXCEPT ![i] = ParentRef]
         /\ trace' = Append(trace, Event("start", i))
    /\ pc' = "await"
    /\ UNCHANGED <<nonComposite, config, heap, entry, idx, original_prompt, childResp,
                   childLog, leftBy, final_response, result>>

\* the awaited call returned and the exit condition holds: return it
LoopExit ==
    /\ kind = "loop"
    /\ pc = "await"
    /\ childPc[idx] = "returned"
    /\ ~ExitConditionRaises(exit_condition, heap[ParentRef])
    /\ ExitConditionMet(exit_condition, heap[ParentRef])
    /\ final_response' = childResp[idx]
    /\ result' = Returned(childResp[idx])
    /\ pc' = "done"
    /\ UNCHANGED <<nonComposite, config, heap, entry, idx, original_prompt, childRef,
                   childPc, childResp, childLog, leftBy, trace>>

\* the awaited call returned and the loop did not exit: feedback for the
\* next iteration unless this was the last one
LoopContinue ==
    /\ kind = "loop"
    /\ pc = "await"
    /\ childPc[idx] = "returned"
    /\ ~ExitConditionRaises(exit_condition, heap[ParentRef])
    /\ ~ExitConditionMet(exit_condition, heap[ParentRef])
    /\ final_response' = childResp[idx]
    /\ heap' = [heap EXCEPT ![ParentRef] =
                   PrepareNextLoop(@, idx, n, original_prompt, childResp[idx],
                                   keep_alive_state)]
    /\ trace' = IF idx < n THEN Append(trace, Event("write", idx)) ELSE trace
    /\ idx' = idx + 1
    /\ pc' = "loop"
    /\ UNCHANGED <<nonComposite, config, entry, original_prompt, childRef, childPc,
                   childResp, childLog, leftBy, result>>

\* the awaited call raised, or the exit condition did: execute raises
LoopRaised ==
    /\ kind = "loop"
    /\ pc = "await"
    /\ \/ childPc[idx] = "raised"
       \/ /\ childPc[idx] = "returned"
          /\ ExitConditionRaises(exit_condition, heap[ParentRef])
    /\ result' = Raised
    /\ pc' = "done"
    /\ UNCHANGED <<nonComposite, config, heap, entry, idx, original_prompt, childRef,
                   childPc, childResp, childLog, leftBy, final_response, trace>>

\* the for loop is over: return final_response
LoopReturn ==
    /\ kind = "loop"
    /\ pc = "loop"
    /\ ~LoopRange(idx, n)
    /\ result' = ReturnFinal(final_response)
    /\ pc' = "done"
    /\ UNCHANGED <<nonComposite, config, heap, entry, idx, original_prompt, childRef,
                   childPc, childResp, childLog, leftBy, final_response, trace>>

\* ------------------------------------------------------- specification
Next ==
    \/ \E i \in CallIds : ChildAddMessage(i)
    \/ \E i \in CallIds : ChildUpdateData(i)
    \/ \E i \in CallIds : ChildPrunes(i)
    \/ \E i \in CallIds : ChildReturns(i)
    \/ \E i \in CallIds : ChildRaises(i)
    \/ ParallelDispatch
    \/ ParallelAggregate
    \/ SequentialEnter
    \/ SequentialCallChild
    \/ SequentialChildReturned
    \/ SequentialChildRaised
    \/ SequentialReturn
    \/ LoopEnterEmpty
    \/ LoopEnter
    \/ LoopCallChild
    \/ LoopExit
    \/ LoopContinue
    \/ LoopRaised
    \/ LoopReturn

Spec == Init /\ [][Next]_vars

\* --------------------------------------------------- the tool registry
\* ToolManager.register(func); tool_call and tool_result describe the call
\* made since the latest registration
Register(func) ==
    /\ Len(registrations) < MaxRegistrations
    /\ tools' = register(tools, func)
    /\ registrations' = Append(registrations, func)
    /\ tool_call' = NoCall
    /\ tool_result' = NoToolResult
    /\ UNCHANGED nonTool

\* await ToolManager.execute_tool(...): the registry is read, not changed,
\* so one call per registry state shows all there is to see
ExecuteTool(c) ==
    /\ tool_call = NoCall
    /\ tool_call' = c
    /\ tool_result' = execute_tool(tools, c)
    /\ UNCHANGED <<nonTool, tools, registrations>>

ToolInit ==
    /\ CompositeIdle
    /\ ToolManagerInit
    /\ ReactIdle
    /\ ManagerInit
    /\ DynamicIdle
    /\ LLMIdle

ToolNext ==
    \/ \E func \in Callables : Register(func)
    \/ \E c \in Calls : ExecuteTool(c)

SpecTool == ToolInit /\ [][ToolNext]_vars

\* ------------------------------------------------------- the ReAct agent
Instruction == ChatMessage("system", <<"instruction">>)

\* the tools a ReActAgent is constructed with: ToolManager(tools)
ReactTools == register(register(<<>>, "add"), "boom")

\* self._sync_history_to_state(...); state.add_message("assistant", ...);
\* return AgentResponse(status, final_content): raises where the sync does
ReactFinish(status, final_content) ==
    LET slice == SubSeq(execution_history, initial_history_len + 1,
                        Len(execution_history))
    IN  /\ react_pc' = "done"
        /\ IF SyncError(slice) /= "no error"
           THEN /\ react_error' = SyncError(slice)
                /\ react_result' = Raised
                /\ UNCHANGED session
           ELSE /\ session' =
                     add_message(
                         [session EXCEPT !.history = @ \o slice],
                         "assistant", final_content)
                /\ react_result' =
                     Returned(AgentResponse(status, StrFC(final_content)))
                /\ UNCHANGED react_error

\* ReActAgent.execute is entered: lines 82-84
ReactEnter ==
    /\ react_pc = "idle"
    /\ initial_history_len' = Len(session.history)
    /\ execution_history' = <<Instruction>> \o session.history
    /\ iteration' = 0
    /\ react_pc' = "loop"
    /\ UNCHANGED <<nonReact, reactConfig, session, model_calls,
                   last_answer, react_result, react_error>>

\* the next iteration starts: llm_response = await self.llm.generate(...)
ReactCallModel ==
    /\ react_pc = "loop"
    /\ ReactRange(iteration, max_iterations)
    /\ iteration' = iteration + 1
    /\ model_calls' = model_calls + 1
    /\ react_pc' = "generate"
    /\ UNCHANGED <<nonReact, reactConfig, session, initial_history_len,
                   execution_history, last_answer, react_result, react_error>>

\* llm.generate raises: nothing in execute catches it
ReactModelRaises ==
    /\ react_pc = "generate"
    /\ react_pc' = "done"
    /\ react_result' = Raised
    /\ react_error' = "Exception"
    /\ UNCHANGED <<nonReact, reactConfig, session, iteration,
                   initial_history_len, execution_history, model_calls,
                   last_answer>>

\* the model answers with text that _is_final_answer accepts: lines 121-136.
\* _validate_structured_output raises ValueError for content that does not
\* validate and returns the validated model's JSON otherwise
ReactFinalAnswer(ans) ==
    /\ react_pc = "generate"
    /\ IsFinal(ans)
    /\ last_answer' = ans
    /\ IF output_structure /\ ~Conforms(ans)
       THEN /\ react_pc' = "done"
            /\ react_result' = Raised
            /\ react_error' = "ValueError"
            /\ UNCHANGED session
       ELSE ReactFinish("success",
                        IF output_structure
                        THEN model_dump_json(model_validate_json(ans.content))
                        ELSE UserContent(ans))
    /\ UNCHANGED <<nonReact, reactConfig, iteration, initial_history_len,
                   execution_history, model_calls>>

\* variant: the clarification request is written to the shared state too
ReactAmbiguousShared(ans) ==
    /\ react_pc = "generate"
    /\ IsAmbiguous(ans)
    /\ last_answer' = ans
    /\ execution_history' = Append(execution_history, Clarification)
    /\ session' = add_message(session, Clarification.role,
                              Clarification.content)
    /\ react_pc' = "loop"
    /\ UNCHANGED <<nonReact, reactConfig, iteration, initial_history_len,
                   model_calls, react_result, react_error>>

\* the model answers with text that is not a final answer: lines 137-144
ReactAmbiguous(ans) ==
    /\ react_pc = "generate"
    /\ IsAmbiguous(ans)
    /\ last_answer' = ans
    /\ execution_history' = Append(execution_history, Clarification)
    /\ react_pc' = "loop"
    /\ UNCHANGED <<nonReact, reactConfig, session, iteration,
                   initial_history_len, model_calls, react_result,
                   react_error>>

\* the model asks for tools: lines 147-157. The assistant message is built
\* with the keyword tool_calls, the observation of each call with
\* tool_call_id and name
ReactToolCalls(ans) ==
    /\ react_pc = "generate"
    /\ AsksForTools(ans)
    /\ last_answer' = ans
    /\ IF ~ChatMessageAccepts({"role", "content", "tool_calls"})
          \/ ~ChatMessageAccepts({"role", "tool_call_id", "name", "content"})
       THEN /\ react_pc' = "done"
            /\ react_result' = Raised
            /\ react_error' = "TypeError"
            /\ UNCHANGED execution_history
       ELSE /\ execution_history' =
                 Append(execution_history,
                        ChatMessage("assistant", UserContent(ans)))
                 \o Observations(tools, ans.tool_calls)
            /\ react_pc' = "loop"
            /\ UNCHANGED <<react_result, react_error>>
    /\ UNCHANGED <<nonReact, reactConfig, session, iteration,
                   initial_history_len, model_calls>>

\* the answer is neither text nor tool calls: the iteration ends
ReactIgnored(ans) ==
    /\ react_pc = "generate"
    /\ IsIgnored(ans)
    /\ last_answer' = ans
    /\ react_pc' = "loop"
    /\ UNCHANGED <<nonReact, reactConfig, session, iteration,
                   initial_history_len, execution_history, model_calls,
                   react_result, react_error>>

\* the for loop is over: lines 159-174
ReactMaxIterations ==
    /\ react_pc = "loop"
    /\ ~ReactRange(iteration, max_iterations)
    /\ ReactFinish("max_iterations_reached", _get_summary(execution_history))
    /\ UNCHANGED <<nonReact, reactConfig, iteration, initial_history_len,
                   execution_history, model_calls, last_answer>>

\* a ReActAgent with tools add and boom, constructed with some
\* max_iterations, about to execute on some session state
ReactInit ==
    /\ CompositeIdle
    /\ ManagerInit
    /\ DynamicIdle
    /\ LLMIdle
    /\ tools = ReactTools
    /\ registrations = <<"add", "boom">>
    /\ tool_call = NoCall
    /\ tool_result = NoToolResult
    /\ max_iterations \in 0..MaxIterations
    /\ output_structure \in BOOLEAN
    /\ strip_thinking \in BOOLEAN
    /\ session \in EntryStates
    /\ react_pc = "idle"
    /\ iteration = 0
    /\ initial_history_len = 0
    /\ execution_history = <<>>
    /\ model_calls = 0
    /\ last_answer = NoAnswer
    /\ react_result = NoResult
    /\ react_error = "no error"

ReactNext ==
    \/ ReactEnter
    \/ ReactCallModel
    \/ ReactModelRaises
    \/ \E ans \in Answers : ReactFinalAnswer(ans)
    \/ \E ans \in Answers : ReactAmbiguous(ans)
    \/ \E ans \in Answers : ReactToolCalls(ans)
    \/ \E ans \in Answers : ReactIgnored(ans)
    \/ ReactMaxIterations

\* every await of execute completes: the model client answers or raises
SpecReact == ReactInit /\ [][ReactNext]_vars /\ WF_vars(ReactNext)

\* ------------------------------------------------------ WorkflowManager
\* register_workflow: a name already registered is overwritten
RegisterWorkflow(workflow_name, agent) ==
    /\ workflows' = [workflows EXCEPT ![workflow_name] = agent]
    /\ UNCHANGED <<nonManager, sessions, run_call, run_count, executions,
                   run_result>>

\* create_session: a fresh id mapped to an empty SessionState
CreateSession ==
    /\ Len(sessions) < MaxSessions
    /\ sessions' = Append(sessions, SessionState(<<>>, EmptyData))
    /\ UNCHANGED <<nonManager, workflows, run_call, run_count, executions,
                   run_result>>

\* run: look the workflow up, then the session, append the prompt and
\* await the root agent's execute, whose exception nothing catches
Run(workflow_name, session_id, prompt) ==
    LET agent == get(workflows, workflow_name)
        prompted == Prompted(sessions, agent, session_id, prompt)
    IN  /\ run_count < MaxRuns
        /\ run_call' = RunCall(workflow_name, session_id, prompt)
        /\ run_count' = run_count + 1
        /\ IF agent = NoAgent
           THEN /\ run_result' = Returned(WorkflowNotFound(workflow_name))
                /\ sessions' = prompted
                /\ UNCHANGED executions
           ELSE IF session_id \notin 1..Len(sessions)
           THEN /\ run_result' = Raised
                /\ sessions' = prompted
                /\ UNCHANGED executions
           ELSE \E ops \in AgentOps :
                  /\ sessions' =
                       [prompted EXCEPT ![session_id] = ApplyOps(@, ops)]
                  /\ executions' = Append(executions, <<agent, session_id>>)
                  /\ run_result' \in
                       {Returned(r) : r \in ChildResponses} \cup {Raised}
        /\ UNCHANGED <<nonManager, workflows>>

ManagerNext ==
    \/ \E w \in WorkflowNames, agent \in Agents : RegisterWorkflow(w, agent)
    \/ CreateSession
    \/ \E w \in RunNames, sid \in UnknownSessionId..MaxSessions,
          prompt \in Prompts : Run(w, sid, prompt)

\* a new WorkflowManager, nothing else running
ManagerAloneInit ==
    /\ CompositeIdle
    /\ ToolManagerInit
    /\ ReactIdle
    /\ ManagerInit
    /\ DynamicIdle
    /\ LLMIdle

SpecManager == ManagerAloneInit /\ [][ManagerNext]_vars

\* ------------------------------------------------- DynamicWorkflowAgent
\* register_tool, before the agent is executed
DynRegisterTool(name) ==
    /\ dyn_pc = "idle"
    /\ available_tools' = available_tools \cup {name}
    /\ UNCHANGED <<nonDynamic, available_output_structures, dyn_state,
                   dyn_entry, dyn_pc, llm_response, instantiated, started,
                   dyn_result>>

\* register_output_structure, before the agent is executed
DynRegisterOutputStructure(name) ==
    /\ dyn_pc = "idle"
    /\ available_output_structures' = available_output_structures \cup {name}
    /\ UNCHANGED <<nonDynamic, available_tools, dyn_state, dyn_entry, dyn_pc,
                   llm_response, instantiated, started, dyn_result>>

\* execute up to the await of llm.generate
DynEnter ==
    /\ dyn_pc = "idle"
    /\ dyn_pc' = "awaiting"
    /\ UNCHANGED <<nonDynamic, registries, dyn_state, dyn_entry, llm_response,
                   instantiated, started, dyn_result>>

\* llm.generate raises: the call is outside the try
DynModelRaises ==
    /\ dyn_pc = "awaiting"
    /\ dyn_pc' = "done"
    /\ dyn_result' = Raised
    /\ UNCHANGED <<nonDynamic, registries, dyn_state, dyn_entry, llm_response,
                   instantiated, started>>

\* llm.generate answers: the shape is checked, the plan validated and the
\* tree built, all without an await
DynModelAnswers(reply) ==
    LET build == PlanAndBuild(reply.root_agent, available_tools,
                              available_output_structures)
        fails(r) == /\ dyn_pc' = "done"
                    /\ dyn_result' = Returned(r)
                    /\ UNCHANGED instantiated
    IN  /\ dyn_pc = "awaiting"
        /\ llm_response' = reply
        /\ IF reply.form \in {"str", "tool_calls"}
           THEN fails(NoToolCall)
           ELSE IF reply.form = "message.no_calls"
           THEN fails(FailedToBuild(<<"list index out of range">>))
           ELSE IF reply.name /= "create_workflow_plan"
           THEN fails(UnexpectedTool(reply.name))
           ELSE /\ instantiated' = build.made
                /\ IF MayExecute(build)
                   THEN /\ dyn_pc' = "built"
                        /\ UNCHANGED dyn_result
                   ELSE /\ dyn_pc' = "done"
                        /\ dyn_result' = Returned(FailedToBuild(build.error))
        /\ UNCHANGED <<nonDynamic, registries, dyn_state, dyn_entry, started>>

\* await root_agent_instance.execute(state)
DynExecuteRoot ==
    /\ dyn_pc = "built"
    /\ dyn_pc' = "executing"
    /\ started' = {<<>>}
    /\ UNCHANGED <<nonDynamic, registries, dyn_state, dyn_entry, llm_response,
                   instantiated, dyn_result>>

\* a node whose parent is executing is entered; the children of a
\* Sequential node are entered in list order
DynChildStarts(path) ==
    LET parent == SubSeq(path, 1, Len(path) - 1)
        k == path[Len(path)]
    IN  /\ dyn_pc = "executing"
        /\ path /= <<>>
        /\ path \notin started
        /\ parent \in started
        /\ NodeAt(llm_response.root_agent, parent).agent_type
             = "SequentialAgent"
           => \A j \in 1..(k - 1) : Append(parent, j) \in started
        /\ started' = started \cup {path}
        /\ UNCHANGED <<nonDynamic, registries, dyn_state, dyn_entry, dyn_pc,
                       llm_response, instantiated, dyn_result>>

\* the root's execute ends: its response is returned as it is, and what it
\* raises becomes an error response
DynReturn ==
    /\ dyn_pc = "executing"
    /\ dyn_pc' = "done"
    /\ \E ops \in AgentOps : dyn_state' = ApplyOps(dyn_state, ops)
    /\ dyn_result' \in
         {Returned(r) : r \in ChildResponses}
         \cup {Returned(FailedToBuild(<<"boom">>))}
    /\ UNCHANGED <<nonDynamic, registries, dyn_entry, llm_response,
                   instantiated, started>>

DynamicInit ==
    /\ CompositeIdle
    /\ ToolManagerInit
    /\ ReactIdle
    /\ ManagerInit
    /\ LLMIdle
    /\ available_tools \in SUBSET {"add"}
    /\ available_output_structures = {}
    /\ dyn_state \in EntryStates
    /\ dyn_entry = dyn_state
    /\ DynamicNotEntered

DynamicNext ==
    \/ DynRegisterTool("add")
    \/ DynRegisterOutputStructure("MockOutputStructure")
    \/ DynEnter
    \/ DynModelRaises
    \/ \E reply \in Replies : DynModelAnswers(reply)
    \/ DynExecuteRoot
    \/ \E path \in Paths(llm_response.root_agent, <<>>) : DynChildStarts(path)
    \/ DynReturn

SpecDynamic == DynamicInit /\ [][DynamicNext]_vars

\* ------------------------------------------------------------- LLMAgent
\* execute up to the await of llm.generate: lines 88-113
LLMEnter ==
    /\ llm_pc = "idle"
    /\ llm_pc' = "generate"
    /\ UNCHANGED <<nonLLM, llmConfig, llm_state, llm_entry, llm_reply,
                   llm_executed, llm_result, llm_error>>

\* llm.generate raises: nothing in execute catches it
LLMModelRaises ==
    /\ llm_pc = "generate"
    /\ llm_pc' = "done"
    /\ llm_result' = Raised
    /\ llm_error' = "Exception"
    /\ UNCHANGED <<nonLLM, llmConfig, llm_state, llm_entry, llm_reply,
                   llm_executed>>

\* the answer is a dict with tool_calls: lines 115-142
LLMToolCalls(reply) ==
    LET o == RunToolCalls(llm_state, llm_executed, reply.tool_calls,
                          tool_manager, llm_output_structure)
    IN  /\ llm_pc = "generate"
        /\ reply.form = "tool_calls"
        /\ o.next = "recurse" => Len(o.state.history) <= MaxAgentHistory
        /\ llm_reply' = reply
        /\ llm_state' = o.state
        /\ llm_executed' = o.executed
        /\ llm_error' = o.error
        /\ llm_pc' = IF o.next = "recurse" THEN "recurse" ELSE "done"
        /\ llm_result' = CASE o.next = "recurse" -> NoResult
                            [] o.next = "returned" -> Returned(o.response)
                            [] o.next = "raised" -> Raised
        /\ UNCHANGED <<nonLLM, llmConfig, llm_entry>>

\* return await self.execute(state): line 142, then lines 88-113 again
LLMRecurse ==
    /\ llm_pc = "recurse"
    /\ llm_pc' = "generate"
    /\ UNCHANGED <<nonLLM, llmConfig, llm_state, llm_entry, llm_reply,
                   llm_executed, llm_result, llm_error>>

\* the answer is a str: lines 144-148
LLMFinalText(reply) ==
    /\ llm_pc = "generate"
    /\ reply.form = "str"
    /\ llm_reply' = reply
    /\ llm_state' = update_data(add_message(llm_state, "agent", reply.text),
                                "last_agent_response", StrFC(reply.text))
    /\ llm_pc' = "done"
    /\ llm_result' = Returned(AgentResponse("success", StrFC(reply.text)))
    /\ UNCHANGED <<nonLLM, llmConfig, llm_entry, llm_executed, llm_error>>

\* the answer is anything else: lines 150-152
LLMInvalid(reply) ==
    /\ llm_pc = "generate"
    /\ reply.form = "other"
    /\ llm_reply' = reply
    /\ llm_pc' = "done"
    /\ llm_result' =
         Returned(AgentResponse("error", StrFC(<<"Invalid LLM response.">>)))
    /\ UNCHANGED <<nonLLM, llmConfig, llm_state, llm_entry, llm_executed,
                   llm_error>>

\* an LLMAgent constructed with no tool or with add, with or without an
\* output structure, about to execute on some session state
LLMInit ==
    /\ CompositeIdle
    /\ ToolManagerInit
    /\ ReactIdle
    /\ ManagerInit
    /\ DynamicIdle
    /\ tool_manager \in {<<>>, register(<<>>, "add")}
    /\ llm_output_structure \in BOOLEAN
    /\ llm_state \in AgentEntryStates
    /\ llm_entry = llm_state
    /\ LLMNotEntered

LLMNext ==
    \/ LLMEnter
    \/ LLMModelRaises
    \/ \E reply \in AgentReplies : LLMToolCalls(reply)
    \/ LLMRecurse
    \/ \E reply \in AgentReplies : LLMFinalText(reply)
    \/ \E reply \in AgentReplies : LLMInvalid(reply)

\* every await of execute completes: the model client answers or raises
SpecLLM == LLMInit /\ [][LLMNext]_vars /\ WF_vars(LLMNext)

\* ---------------------------------------------------------------- claims
FinalContent == result.response.final_content

Finished(i) == childPc[i] \in {"returned", "raised"}

Running == {i \in CallIds : childPc[i] = "running"}

\* the message that carries a child's output to the next child
OutputMessage(out) ==
    IF out.kind = "model"
    THEN ChatMessage("user", <<"{">> \o out.val \o <<"}">>)
    ELSE ChatMessage("agent", IF out.kind = "none" THEN <<"None">> ELSE out.val)

IsPrefix(s, t) == Len(s) <= Len(t) /\ SubSeq(t, 1, Len(s)) = s

RECURSIVE OneAtATime(_)
OneAtATime(k) ==
    IF k = 0 THEN <<>>
    ELSE OneAtATime(k - 1)
         \o <<Event("start", k), Event("end", k), Event("write", k)>>

\* the exit condition, evaluated on the state call k left behind
TrueAfter(k) ==
    /\ childPc[k] = "returned"
    /\ leftBy[k].history /= <<>>
    /\ critique_is_approved(leftBy[k])

\* C1: when a ParallelAgent whose N children all returned has finished, it
\* has returned a list of length N whose i-th element is the final_content
\* of child i, in whatever order the children completed, and the state
\* passed to execute is what it was on entry.
C1_ParallelResultOrder ==
    (kind = "parallel" /\ pc = "done"
        /\ \A i \in Children : childPc[i] = "returned")
    => /\ result.outcome = "returned"
       /\ Len(FinalContent) = n
       /\ \A i \in Children : FinalContent[i] = childResp[i].final_content
       /\ heap[ParentRef] = entry

C1_Witness ==
    /\ kind = "parallel" /\ pc = "done" /\ n >= 2
    /\ \A i \in Children : childPc[i] = "returned"
    /\ childResp[1].final_content /= childResp[2].final_content
    /\ trace[1] = Event("end", 2)
    /\ childLog[1] /= <<>>
    /\ entry.history /= <<>>

\* C2: at every moment of a ParallelAgent's run the parent's state is what
\* it was on entry and each child's state is the entry state changed by
\* that child's own writes only, so no write of a child shows in a sibling's
\* state or in the parent's.
C2_ParallelIsolation ==
    (kind = "parallel" /\ pc /= "idle")
    => /\ heap[ParentRef] = entry
       /\ \A i \in Children : heap[childRef[i]] = ApplyOps(entry, childLog[i])

C2_Witness ==
    /\ kind = "parallel" /\ pc = "gather" /\ n >= 2
    /\ \E i, j \in Children :
         /\ i /= j
         /\ childLog[i] /= <<>>
         /\ heap[childRef[i]] /= entry
         /\ childPc[j] = "running"
         /\ heap[childRef[j]] = entry

\* C3: a finished ParallelAgent has returned status success with None at
\* the index of every child that raised and the child's final_content at
\* every other index, whichever children raised.
C3_ParallelPartialFailure ==
    (kind = "parallel" /\ pc = "done")
    => /\ result.outcome = "returned"
       /\ result.response.status = "success"
       /\ Len(FinalContent) = n
       /\ \A i \in Children :
            FinalContent[i] = IF childPc[i] = "raised" THEN NoneFC
                              ELSE childResp[i].final_content

C3_Witness ==
    /\ kind = "parallel" /\ pc = "done" /\ n >= 2
    /\ childPc[1] = "raised"
    /\ childPc[2] = "returned"
    /\ childResp[2].final_content /= NoneFC
    /\ result.response.status = "success"

\* C4: a ParallelAgent has returned only if every child has finished, by
\* returning or by raising: no child is still running and none was dropped.
C4_ParallelAwaitsAll ==
    (kind = "parallel" /\ pc = "done") => \A i \in Children : Finished(i)

C4_Witness ==
    /\ kind = "parallel" /\ pc = "done" /\ n >= 2
    /\ \E i, j \in Children :
         /\ childPc[i] = "raised"
         /\ childPc[j] = "returned"
         /\ trace[1] = Event("end", i)
         /\ childLog[j] /= <<>>

\* C5: the AgentResponse a SequentialAgent returns is the response of the
\* last child of its children list.
C5_SequentialReturnsLast ==
    (kind = "sequential" /\ result.outcome = "returned")
    => /\ n >= 1
       /\ result.response = childResp[n]

C5_Witness ==
    /\ kind = "sequential" /\ pc = "done" /\ n >= 2
    /\ result.outcome = "returned"
    /\ childResp[1] /= childResp[n]

\* C6: with keep_alive_state false, at the moment a SequentialAgent starts
\* a child other than the first the shared history is exactly one message,
\* the previous child's output: role user with the JSON text when it is
\* structured, role agent with its text otherwise (the child just started
\* is the last event and has not touched the state yet).
C6_SequentialPrunedHandOff ==
    \A i \in Children :
        (kind = "sequential" /\ ~keep_alive_state /\ i > 1
            /\ trace /= <<>> /\ trace[Len(trace)] = Event("start", i)
            /\ childLog[i] = <<>>)
        => heap[ParentRef].history
               = <<OutputMessage(childResp[i - 1].final_content)>>

C6_Witness ==
    /\ kind = "sequential" /\ ~keep_alive_state /\ n >= 2
    /\ trace /= <<>> /\ trace[Len(trace)] = Event("start", 2)
    /\ Len(entry.history) >= 2
    /\ childLog[1] /= <<>>
    /\ childResp[1].final_content.kind = "model"

\* C7: with keep_alive_state true, right after a SequentialAgent has handled
\* a child's response the shared history is the history as that child left
\* it followed by one message carrying the child's output.
C7_SequentialKeepAliveAppends ==
    (kind = "sequential" /\ keep_alive_state /\ pc = "loop" /\ idx > 1)
    => heap[ParentRef].history
           = Append(leftBy[idx - 1].history,
                    OutputMessage(childResp[idx - 1].final_content))

C7_Witness ==
    /\ kind = "sequential" /\ keep_alive_state /\ pc = "loop" /\ idx = 2
    /\ Len(leftBy[1].history) >= 3
    /\ Len(heap[ParentRef].history) = Len(leftBy[1].history) + 1

\* C8: under SequentialAgent and LoopAgent at most one child call is running
\* at any time, and the calls happen one after the other in order: call i
\* starts, ends and has its output (the feedback prompt, for a LoopAgent)
\* written before call i+1 starts.
C8_OneChildAtATime ==
    (kind \in {"sequential", "loop"})
    => /\ Cardinality(Running) <= 1
       /\ IsPrefix(trace, OneAtATime(n))

C8_Witness ==
    /\ kind = "loop" /\ n >= 2
    /\ childPc[1] = "returned" /\ childPc[2] = "running"
    /\ trace = <<Event("start", 1), Event("end", 1), Event("write", 1),
                 Event("start", 2)>>

\* C9: a LoopAgent calls its child at most max_loops times, and when the
\* exit condition is first true on the state after call k, call k is the
\* last call and its response is what execute returns.
C9_LoopBoundAndExit ==
    (kind = "loop")
    => /\ NumCalls <= n
       /\ \A k \in CallIds :
            (exit_condition /= "none" /\ TrueAfter(k)
                /\ \A j \in 1..(k - 1) : ~TrueAfter(j))
            => /\ NumCalls = k
               /\ pc \in {"await", "done"}
               /\ (pc = "done" => result = Returned(childResp[k]))

C9_Witness ==
    /\ kind = "loop" /\ n = 3 /\ pc = "done"
    /\ exit_condition /= "none"
    /\ TrueAfter(2) /\ ~TrueAfter(1)
    /\ NumCalls = 2
    /\ result = Returned(childResp[2])

Exhausted ==
    /\ kind = "loop" /\ pc = "done"
    /\ n >= 1 /\ NumCalls = n
    /\ \A k \in 1..n :
         /\ childPc[k] = "returned"
         /\ ~(exit_condition /= "none" /\ TrueAfter(k))

\* C11: a LoopAgent that exhausted max_loops without the exit condition ever
\* being true has returned the response of the last child call, status and
\* content unchanged.
C11_LoopExhaustedReturnsLast ==
    Exhausted => result = Returned(childResp[n])

C11_Witness ==
    /\ Exhausted
    /\ n = 2
    /\ exit_condition = "critique_is_approved"
    /\ childResp[1].status = "error"
    /\ childResp[2].status = "success"
    /\ result.outcome = "returned"

RevisionFor(k) ==
    LET out == childResp[k].final_content
    IN  ChatMessage("user",
            <<"Original request: ">> \o entry.history[1].content
            \o <<"\n\nPlease revise your work based on the following feedback: ">>
            \o (IF out.kind = "model" THEN <<"{">> \o out.val \o <<"}">>
                ELSE IF out.kind = "none" THEN <<"None">> ELSE out.val))

Writes == {j \in 1..Len(trace) : trace[j].ev = "write"}

C14_AlwaysAgentResponse ==
    pc = "done"
    => /\ result.outcome = "returned"
       /\ result.response.status
            \in {"success", "error", "max_iterations_reached"}

\* a call of execute_tool has been made
Called == tool_call.form /= "none"

\* the arguments a call supplies, as one mapping or as keywords
Supplied == tool_call.args.items

\* an argument set consistent with the definition derived from func: the
\* required parameters present, nothing the definition does not list, a
\* model parameter given as a dict that validates
Consistent(func, d) ==
    LET def == _generate_tool_definition(func)
    IN  /\ def.required \subseteq Keys(d)
        /\ Keys(d) \subseteq def.properties
        /\ \A k \in ModelParams(func) : d[k] = OkDict

\* what a well-typed callable returns for a consistent argument set
ExpectedResult(func, d) ==
    IF func = "describe" THEN <<"{", ItemModel, "}">>
    ELSE <<func, "(", d["a"], ",", d["b"], ")">>

\* C15: a call of execute_tool with a name that is not registered, whatever
\* arguments it supplies, has returned a string that contains "not found",
\* has not raised and has invoked no callable.
C15_UnknownToolNotFound ==
    (Called /\ ~Has(tools, tool_call.name))
    => /\ tool_result.outcome = "returned"
       /\ \E j \in 1..Len(tool_result.val) :
            tool_result.val[j] = "' not found."
       /\ tool_result.invoked = {}

\* C16: a call execute_tool(name, args) for a registered tool has not raised,
\* and unless the argument set is consistent and the callable does not raise
\* it has returned a string beginning "Error executing tool:".
C16_ToolFailureIsAString ==
    (Called /\ tool_call.form = "mapping" /\ Has(tools, tool_call.name))
    => LET func == Get(tools, tool_call.name)
       IN  /\ tool_result.outcome = "returned"
           /\ (~tool_call.args.is_mapping
               \/ ~Consistent(func, Supplied)
               \/ func = "boom")
              => tool_result.val[1] = "Error executing tool: "

\* C18: a call of execute_tool for a registered, well-typed callable with an
\* argument set consistent with its definition, passed as one mapping or as
\* keyword arguments, has invoked the callable and returned its result.
C18_ConsistentCallSucceeds ==
    (/\ Called
     /\ Has(tools, tool_call.name)
     /\ tool_call.args.is_mapping
     /\ Get(tools, tool_call.name) /= "boom"
     /\ Consistent(Get(tools, tool_call.name), Supplied))
    => LET func == Get(tools, tool_call.name)
       IN  /\ tool_result.outcome = "returned"
           /\ tool_result.invoked = {func}
           /\ tool_result.val = ExpectedResult(func, Supplied)

\* the registrations of a callable named name, as indexes of registrations
RegistrationsOf(name) ==
    {j \in 1..Len(registrations) : FuncName(registrations[j]) = name}

Latest(S) == CHOOSE j \in S : \A k \in S : k <= j

\* C19: after any sequence of registrations the registry maps each name to
\* the most recently registered callable of that name, has no entry for a
\* name never registered, and lists exactly one definition per name, that
\* of the most recently registered callable.
C19_LastRegistrationWins ==
    /\ \A name \in ToolNames :
         IF RegistrationsOf(name) = {}
         THEN ~Has(tools, name)
         ELSE /\ Has(tools, name)
              /\ Get(tools, name) = registrations[Latest(RegistrationsOf(name))]
    /\ LET defs == get_tool_definitions(tools)
       IN  /\ Len(defs) =
                Cardinality({name \in ToolNames : RegistrationsOf(name) /= {}})
           /\ \A p, q \in 1..Len(defs) : defs[p].name = defs[q].name => p = q
           /\ \A p \in 1..Len(defs) :
                defs[p] = _generate_tool_definition(
                    registrations[Latest(RegistrationsOf(defs[p].name))])

C19_Witness ==
    /\ registrations = <<"add", "add_again">>
    /\ Len(tools) = 1
    /\ Get(tools, "add") = "add_again"
    /\ tool_call.name = "add"
    /\ tool_result.invoked = {"add_again"}

\* the latest model answer asked for tools and has been handled
ToolTurnHandled == AsksForTools(last_answer) /\ react_pc /= "generate"

\* C17: when a reasoning agent has handled a model answer that asks for tool
\* calls (a tool that works, one that is not registered, one that raises,
\* one given arguments it does not accept), execute has not raised, one
\* observation per call has been appended to the transcript and the agent
\* is about to go on to the next model call.
C17_ToolFailureIsObserved ==
    ToolTurnHandled
    => LET k == Len(last_answer.tool_calls)
           h == execution_history
       IN  /\ react_result.outcome /= "raised"
           /\ react_pc = "loop"
           /\ Len(h) > k
           /\ \A j \in (Len(h) - k + 1)..Len(h) : h[j].role = "tool"

\* C20: one ReActAgent.execute invocation calls the model at most
\* max_iterations times and terminates, by returning or by raising, whatever
\* the model answers.
C20_ReactBoundedAndTerminates ==
    /\ [](model_calls <= max_iterations)
    /\ <>(react_pc = "done")

C20_Witness ==
    /\ react_pc = "done"
    /\ max_iterations = 3
    /\ model_calls = 3
    /\ IsAmbiguous(last_answer)
    /\ Len(execution_history) = initial_history_len + 1 + 3

\* the shared history as it was when ReActAgent.execute was entered
EntryHistory == SubSeq(execution_history, 2, initial_history_len + 1)

\* the messages the invocation added to its local transcript
AddedLocally ==
    SubSeq(execution_history, initial_history_len + 2, Len(execution_history))

\* execute left the for loop without a final answer (lines 159-174)
ReactExhausted ==
    /\ react_pc = "done"
    /\ iteration = max_iterations
    /\ ~IsFinal(last_answer)
    /\ ~AsksForTools(last_answer)
    /\ react_error /= "Exception"

\* execute took the final answer branch (lines 121-136)
ReactAnswered == react_pc = "done" /\ IsFinal(last_answer)

\* C21: a ReActAgent that used up max_iterations without a final answer has
\* returned status max_iterations_reached with the summary of the last five
\* messages of the local transcript as final_content, and that summary is
\* the last message of the shared history.
C21_ReactExhaustedSummary ==
    ReactExhausted
    => /\ react_result.outcome = "returned"
       /\ react_result.response.status = "max_iterations_reached"
       /\ react_result.response.final_content
            = StrFC(_get_summary(execution_history))
       /\ session.history /= <<>>
       /\ session.history[Len(session.history)].content
            = _get_summary(execution_history)

\* C23: at every terminal branch of ReActAgent.execute the shared history is
\* the history at entry, then the messages added to the local transcript,
\* in order, then the final assistant message.
C23_ReactSyncExact ==
    (ReactAnswered \/ ReactExhausted)
    => /\ Len(session.history) = Len(EntryHistory) + Len(AddedLocally) + 1
       /\ SubSeq(session.history, 1, Len(session.history) - 1)
            = EntryHistory \o AddedLocally
       /\ session.history[Len(session.history)].role = "assistant"

\* C25: when the model has returned a value that is neither text nor a
\* mapping, the reasoning agent's execute has returned status error.
C25_InvalidAnswerIsError ==
    (last_answer = OtherAnswer /\ react_pc /= "generate")
    => /\ react_pc = "done"
       /\ react_result.outcome = "returned"
       /\ react_result.response.status = "error"

\* C26: when llm.generate has raised, execute has returned a response with
\* status error; the exception has not left execute.
C26_ModelFailureIsError ==
    (react_pc = "done" /\ react_error = "Exception")
    => /\ react_result.outcome = "returned"
       /\ react_result.response.status = "error"

\* no token of tokens is text the model placed inside a thinking span
NoThinkingIn(tokens) ==
    \A j \in 1..Len(tokens) : tokens[j] \notin {"plan A", "plan B"}

C24_InvalidStructureIsError ==
    (output_structure /\ ReactAnswered /\ ~Conforms(last_answer))
    => /\ react_result.outcome = "returned"
       /\ react_result.response.status = "error"


\* C27: run with a workflow name that is not registered returns an error
\* response naming the workflow, for any session id; it executes no agent
\* and changes no session (the prompt is not appended).
C27_UnknownWorkflowIsError ==
    [][(run_count' /= run_count
        /\ get(workflows, run_call'.workflow_name) = NoAgent)
       => /\ run_result'.outcome = "returned"
          /\ run_result'.response.status = "error"
          /\ \E j \in 1..Len(run_result'.response.final_content.val) :
               run_result'.response.final_content.val[j]
                 = run_call'.workflow_name
          /\ executions' = executions
          /\ sessions' = sessions]_vars

\* an unknown workflow was run on a known session that an earlier run used
C27_Witness ==
    /\ run_call.workflow_name = "unknown_workflow"
    /\ run_call.session_id \in 1..Len(sessions)
    /\ run_result = Returned(WorkflowNotFound("unknown_workflow"))
    /\ Len(sessions[run_call.session_id].history) > 0
    /\ executions /= <<>>

\* the model answered with a create_workflow_plan call in the shape execute
\* accepts, so that llm_response.root_agent is the plan given to the agent
PlanGiven ==
    /\ llm_response.form = "message.tool_calls"
    /\ llm_response.name = "create_workflow_plan"

PlanNodes == Paths(llm_response.root_agent, <<>>)

PlanNode(path) == NodeAt(llm_response.root_agent, path)

DynContent == dyn_result.response.final_content.val

DynReturnedError ==
    /\ dyn_result.outcome = "returned"
    /\ dyn_result.response.status = "error"

\* C28: when the root or any nested node of the plan has an agent_type
\* outside the allowed set, execute returns an error whose final_content
\* contains "Unknown agent type: <that type>", and no node is executed.
C28_UnknownAgentType ==
    (dyn_pc = "done" /\ PlanGiven
     /\ \E path \in PlanNodes : PlanNode(path).agent_type \notin AgentTypes)
    => /\ DynReturnedError
       /\ \E path \in PlanNodes, j \in 1..(Len(DynContent) - 1) :
            /\ PlanNode(path).agent_type \notin AgentTypes
            /\ DynContent[j] = "Unknown agent type: "
            /\ DynContent[j + 1] = PlanNode(path).agent_type
       /\ started = {}

\* what validating and building the given plan comes to
PlanBuild ==
    PlanAndBuild(llm_response.root_agent, available_tools,
                 available_output_structures)

\* C29: no node starts executing before the whole tree is validated and
\* instantiated; when validation or construction fails, the run returns an
\* error carrying the cause, no node has executed and the session state is
\* as it was on entry.
C29_BuildBeforeExecute ==
    /\ started /= {}
       => /\ PlanGiven /\ PlanBuild.ok
          /\ {instantiated[j] : j \in 1..Len(instantiated)} = PlanNodes
    /\ (dyn_pc = "done" /\ PlanGiven /\ ~PlanBuild.ok)
       => /\ DynReturnedError
          /\ PlanBuild.error /= <<>>
          /\ Len(DynContent) > Len(PlanBuild.error)
          /\ SubSeq(DynContent, Len(DynContent) - Len(PlanBuild.error) + 1,
                    Len(DynContent)) = PlanBuild.error
          /\ started = {}
          /\ dyn_state = dyn_entry

\* a build failed at a later node, after an earlier node was instantiated
C29_Witness ==
    /\ dyn_pc = "done"
    /\ PlanGiven
    /\ ~PlanBuild.ok
    /\ instantiated /= <<>>
    /\ DynReturnedError
    /\ dyn_entry.history /= <<>>

\* the plan invariants of a node
ViolatesPlanInvariant(c) ==
    \/ /\ c.agent_type \in {"SequentialAgent", "ParallelAgent"}
       /\ c.children = <<>>
    \/ /\ c.agent_type = "LoopAgent"
       /\ c.child = <<>>
    \/ /\ c.agent_type = "LLMAgent"
       /\ \/ c.instruction = "None"
          \/ \E k \in 1..Len(c.tools) : c.tools[k] \notin available_tools
          \/ /\ c.output_structure /= "None"
             /\ c.output_structure \notin available_output_structures

\* C30: construction fails, before any execution, whenever some node of the
\* plan violates a plan invariant (composite without children, loop without
\* child, reasoning node without instruction or with an unregistered tool
\* or output schema).
C30_PlanInvariantsEnforced ==
    (PlanGiven /\ \E path \in PlanNodes : ViolatesPlanInvariant(PlanNode(path)))
    => /\ dyn_pc = "done"
       /\ DynReturnedError
       /\ started = {}

\* C40: a run on session A appends its prompt to A and executes against A
\* only, and changes no other session; create_session adds one session with
\* empty history and data and leaves the others as they are; no session is
\* ever removed.
C40_SessionsAreIsolated ==
    [][/\ Len(sessions') >= Len(sessions)
       /\ Len(sessions') > Len(sessions)
          => sessions' = Append(sessions, SessionState(<<>>, EmptyData))
       /\ run_count' /= run_count
          => /\ Len(sessions') = Len(sessions)
             /\ \A b \in 1..Len(sessions) :
                  b /= run_call'.session_id => sessions'[b] = sessions[b]
             /\ executions' /= executions
                => LET a == run_call'.session_id
                   IN  /\ a \in 1..Len(sessions)
                       /\ executions'
                            = Append(executions,
                                     <<get(workflows, run_call'.workflow_name),
                                       a>>)
                       /\ \E ops \in AgentOps :
                            sessions'[a]
                              = ApplyOps(add_message(sessions[a], "user",
                                                     run_call'.prompt), ops)
      ]_vars

\* two sessions exist, each was run once, and the agents left them different
C40_Witness ==
    /\ Len(sessions) = 2
    /\ Len(executions) = 2
    /\ executions[1][2] /= executions[2][2]
    /\ sessions[1] /= sessions[2]
    /\ sessions[1].history /= <<>>
    /\ sessions[2].history /= <<>>

\* the head of every revision prompt of this run: the request as it was in
\* the first history message when the LoopAgent was entered
RevisionHead ==
    <<"Original request: ">> \o entry.history[1].content
    \o <<"\n\nPlease revise your work based on the following feedback: ">>

\* C39: every revision prompt a LoopAgent writes embeds the original request
\* as it was on entry, and no earlier revision prompt: the prompts do not
\* nest, whatever keep_alive_state is.
C39_RevisionPromptsDoNotNest ==
    [][(kind = "loop" /\ Len(trace') > Len(trace)
        /\ trace'[Len(trace')].ev = "write")
       => LET h == heap'[ParentRef].history
              c == h[Len(h)].content
          IN  /\ h[Len(h)].role = "user"
              /\ Len(c) > Len(RevisionHead)
              /\ SubSeq(c, 1, Len(RevisionHead)) = RevisionHead
              /\ Cardinality({j \in 1..Len(c) : c[j] = "Original request: "})
                   = 1
      ]_vars

\* a second revision prompt was written while the history began with the
\* first one
C39_Witness ==
    /\ kind = "loop"
    /\ Cardinality(Writes) = 2
    /\ pc = "loop"
    /\ ~keep_alive_state
    /\ Len(heap[ParentRef].history) = 1
    /\ SubSeq(heap[ParentRef].history[1].content, 1, Len(RevisionHead))
         = RevisionHead
    /\ leftBy[2].history[1].content[1] = "Original request: "

\* a child call replaced the history of the state it was given, as a nested
\* Sequential or Loop agent with keep_alive_state false does
ChildPruned ==
    \E i \in CallIds :
        /\ Len(childLog'[i]) > Len(childLog[i])
        /\ childLog'[i][Len(childLog'[i])].op = "prune"

\* C31 as stated: the history of the run is append-only, every message
\* stays at its position, for every agent tree.
C31_Original ==
    [][IsPrefix(heap[ParentRef].history, heap'[ParentRef].history)]_vars

\* C31: the history of the state a composite was given is append-only as
\* long as no Sequential or Loop agent with keep_alive_state false works on
\* it: a Parallel agent, and a Sequential or Loop agent with
\* keep_alive_state true whose children do not prune, only append.  A step
\* that is not an append leaves a history of exactly one message.
C31_AppendOnlyUnlessPruned ==
    [][/\ ((keep_alive_state \/ kind = "parallel") /\ ~ChildPruned)
          => IsPrefix(heap[ParentRef].history, heap'[ParentRef].history)
       /\ ~IsPrefix(heap[ParentRef].history, heap'[ParentRef].history)
          => Len(heap'[ParentRef].history) = 1
      ]_vars

\* a Sequential agent with keep_alive_state true has run two children that
\* did not prune: the history on entry is still there, with more after it
C31_Witness ==
    /\ kind = "sequential"
    /\ keep_alive_state
    /\ pc = "done"
    /\ n = 2
    /\ entry.history /= <<>>
    /\ \A i \in CallIds : \A j \in 1..Len(childLog[i]) :
         childLog[i][j].op /= "prune"
    /\ Len(heap[ParentRef].history) >= Len(entry.history) + 2
    /\ IsPrefix(entry.history, heap[ParentRef].history)

\* the step that handles a reply (the model did not raise) without tool
\* calls whose content _is_final_answer rejects
AmbiguousStep ==
    /\ react_pc = "generate"
    /\ react_pc' /= "generate"
    /\ react_error' /= "Exception"
    /\ IsAmbiguous(last_answer')

\* that step appends one user-role clarification request to the local
\* transcript and nothing else: the invocation goes on, the shared state is
\* as it was, and the iteration the reply was asked for in is used up
ClarificationRequested ==
    AmbiguousStep
    => /\ react_pc' = "loop"
       /\ react_result' = NoResult
       /\ Len(execution_history') = Len(execution_history) + 1
       /\ IsPrefix(execution_history, execution_history')
       /\ execution_history'[Len(execution_history')].role = "user"
       /\ execution_history'[Len(execution_history')].content
            = <<"Please either use a tool or provide your final answer.">>
       /\ session' = session
       /\ iteration' = iteration
       /\ model_calls' = model_calls
       /\ model_calls = iteration

\* C34 as stated: after the clarification request the model is called again.
C34_Original ==
    /\ [][ClarificationRequested]_vars
    /\ (react_pc = "loop" /\ IsAmbiguous(last_answer)) ~> (react_pc = "generate")

\* C34: a reply with no tool calls that the heuristic judges not final does
\* not return: one user-role clarification request is appended to the local
\* transcript and one iteration is used up; the model is called again when
\* an iteration is left, and the for loop ends when the reply came in the
\* last iteration.
C34_ClarificationAndContinue ==
    /\ [][ClarificationRequested]_vars
    /\ (react_pc = "loop" /\ IsAmbiguous(last_answer)
        /\ iteration < max_iterations) ~> (react_pc = "generate")
    /\ [][(react_pc = "loop" /\ IsAmbiguous(last_answer)
           /\ iteration >= max_iterations)
          => model_calls' = model_calls /\ react_pc' = "done"]_vars

\* the model was called again after a clarification request
C34_Witness ==
    /\ react_pc = "generate"
    /\ model_calls = 2
    /\ IsAmbiguous(last_answer)
    /\ last_answer.content = ""
    /\ execution_history[Len(execution_history)].role = "user"
    /\ Len(execution_history) = initial_history_len + 2

\* the step that handles a reply asking for tool calls
ToolCallsStep ==
    /\ react_pc = "generate"
    /\ react_pc' /= "generate"
    /\ react_error' /= "Exception"
    /\ AsksForTools(last_answer')

\* C35: a reply that requests k tool calls adds to the local transcript one
\* assistant message followed by exactly k tool-role messages, one per call
\* in request order, each with that call's result or error text; the next
\* model call comes only after that.
C35_ToolResultsInOrder ==
    [][ToolCallsStep
       => LET k == Len(last_answer'.tool_calls)
              m == Len(execution_history)
          IN  /\ react_pc' = "loop"
              /\ model_calls' = model_calls
              /\ Len(execution_history') = m + 1 + k
              /\ IsPrefix(execution_history, execution_history')
              /\ execution_history'[m + 1].role = "assistant"
              /\ \A j \in 1..k :
                   execution_history'[m + 1 + j]
                     = Observation(tools, last_answer'.tool_calls[j])
      ]_vars

\* the shared state a terminal branch leaves when it synced: what was there,
\* then messages of the local transcript, then the assistant's final content
FullySynced(before, after) ==
    /\ after.data = before.data
    /\ Len(after.history) > Len(before.history)
    /\ IsPrefix(before.history, after.history)
    /\ after.history[Len(after.history)].role = "assistant"

\* C38: ReActAgent.execute does not touch the shared SessionState before a
\* terminal branch: clarification requests, tool-call messages and tool
\* results go to the local transcript only, and the shared state changes,
\* if it does, in the one step that ends the invocation.
C38_SharedStateUntouchedUntilEnd ==
    [][/\ react_pc' /= "done" => session' = session
       /\ session' /= session
          => /\ react_pc /= "done"
             /\ react_pc' = "done"
             /\ FullySynced(session, session')
      ]_vars

\* two clarification requests are in the local transcript and none is in
\* the shared history
C38_Witness ==
    /\ react_pc = "generate"
    /\ model_calls = 3
    /\ Len(execution_history) = initial_history_len + 3
    /\ execution_history[Len(execution_history)] = Clarification
    /\ execution_history[Len(execution_history) - 1] = Clarification
    /\ Len(session.history) = initial_history_len
    /\ session.history /= <<>>
    /\ \A j \in 1..Len(session.history) : session.history[j] /= Clarification

\* the model answered in the shape OllamaClient returns, a mapping with the
\* key "tool_calls", whose first call is create_workflow_plan
DocumentedPlanGiven ==
    /\ llm_response.form = "tool_calls"
    /\ llm_response.name = "create_workflow_plan"

\* C37: when the model answers in the documented return shape, a mapping
\* with a tool_calls list whose first call is create_workflow_plan with a
\* valid plan, the agent builds the tree and executes it, returning the root
\* agent's response.
C37_DocumentedShapeIsPlanned ==
    (dyn_pc = "done" /\ DocumentedPlanGiven /\ PlanBuild.ok)
    => /\ {instantiated[j] : j \in 1..Len(instantiated)} = PlanNodes
       /\ <<>> \in started
       /\ dyn_result /= Returned(NoToolCall)

\* the step of LLMAgent.execute that handles an answer of the model
AgentHandles ==
    /\ llm_pc = "generate"
    /\ llm_pc' /= "generate"
    /\ llm_error' /= "Exception"

\* the position of the first call with a name in a list of calls, 0 if none
FirstNamed(calls) ==
    LET named == {p \in 1..Len(calls) : calls[p].name /= ""}
    IN  IF named = {} THEN 0
        ELSE CHOOSE p \in named : \A q \in named : p <= q

\* the first call the loop does not skip is structured_output with
\* arguments that conform to the output structure
StructuredFirst(reply) ==
    /\ reply.form = "tool_calls"
    /\ FirstNamed(reply.tool_calls) > 0
    /\ reply.tool_calls[FirstNamed(reply.tool_calls)].name
         = "structured_output"
    /\ ValidatesAs(reply.tool_calls[FirstNamed(reply.tool_calls)].arguments)

AsksForToolsOnly(reply) ==
    /\ reply.form = "tool_calls"
    /\ reply.tool_calls /= <<>>
    /\ \A p \in 1..Len(reply.tool_calls) :
         reply.tool_calls[p].name \notin {"", "structured_output"}

\* C33: when the model answers with tool calls and on the next turn with
\* text, the history gains for each call, in request order, one agent-role
\* call message immediately followed by one tool-role result message, then
\* one agent-role message with the final text; execute returns success
\* with that text, and data["last_tool_result"] and
\* data["last_agent_response"] hold the last tool result and the text.
C33_ToolCallsThenText ==
    [][/\ (AgentHandles /\ AsksForToolsOnly(llm_reply'))
          => LET calls == llm_reply'.tool_calls
                 k == Len(calls)
                 m == Len(llm_state.history)
                 h == llm_state'.history
             IN  /\ llm_pc' = "recurse"
                 /\ Len(h) = m + 2 * k
                 /\ IsPrefix(llm_state.history, h)
                 /\ \A j \in 1..k :
                      /\ h[m + 2 * j - 1]
                           = ChatMessage("agent", CallingTool(calls[j]))
                      /\ h[m + 2 * j].role = "tool"
                 /\ llm_state'.data["last_tool_result"]
                      = StrFC(h[m + 2 * k].content)
                 /\ llm_executed' = llm_executed \o calls
       /\ (AgentHandles /\ llm_reply'.form = "str")
          => /\ llm_state'.history
                  = Append(llm_state.history,
                           ChatMessage("agent", llm_reply'.text))
             /\ llm_state'.data["last_agent_response"]
                  = StrFC(llm_reply'.text)
             /\ llm_state'.data["last_tool_result"]
                  = llm_state.data["last_tool_result"]
             /\ llm_result'
                  = Returned(AgentResponse("success", StrFC(llm_reply'.text)))
      ]_vars

\* C36: one invocation of LLMAgent.execute always terminates, after a
\* bounded number of model calls, also when the model answers every turn
\* with tool calls.
C36_ExecuteTerminates == (llm_pc = "generate") ~> (llm_pc = "done")
====
